---- MODULE Spec2Model ----
(***************************************************************************)
(* A model of the dead-code pipeline of code-viz: the reachability engine  *)
(* (crates/code-viz-dead-code/src/reachability.rs), the symbol-graph cache *)
(* (cache.rs), the pipeline that ties them together (lib.rs) and the CLI   *)
(* command that runs it next to the metrics analysis (code-viz-cli).       *)
(***************************************************************************)
EXTENDS Integers, Sequences, FiniteSets, TLC

(***************************************************************************)
(* Bounds of the reachability model.                                       *)
(***************************************************************************)
NumSyms == 2
MaxEdges == 2
MaxSeeds == 2
\* How many times analyze is called on one analyzer.
MaxCalls == 2

(***************************************************************************)
(* Bounds of the pipeline model: how many analysis runs a behaviour holds, *)
(* and how many changes of the source tree.                                *)
(***************************************************************************)
MaxRuns == 2
MaxFsOps == 1
MaxProbes == 1

\* Symbol ids that are keys of graph.symbols, and one id (0) that is not.
SymbolKeys == 1..NumSyms
Ids == 0..NumSyms

VARIABLES
    \* ---- ReachabilityAnalyzer ----
    graph,          \* the analyzer's SymbolGraph: [symbols, imports]
    visited,        \* self.visited
    rpc,            \* where the analyze call stands
    entry_points,   \* the argument of analyze
    pending,        \* the entry points the for loop has not taken yet
    stack,          \* the local stack of dfs
    result,         \* what analyze returned
    calls,          \* number of analyze calls started on this analyzer
    carried,        \* self.visited as the current call found it
    work,           \* what the current call did: pushes and marks per id
    \* ---- the pipeline and its environment ----
    fs,             \* the source tree: file -> modification time (seconds)
    clock,          \* the system time (seconds)
    db,             \* what the cache store holds under "symbol_graph"
    lastRun,        \* the last call of analyze_dead_code and what it did
    cli,            \* the last run of the analyze command and what it did
    savedFs,        \* the source tree as it was when the entry in db was saved
    disturbed,      \* the tree or the store changed since the last run
    runs,           \* number of runs so far
    fsOps,          \* number of changes of the tree or the store so far
    probe,          \* the last direct call of a library function
    \* ---- the applications around the libraries ----
    watch,          \* code-viz watch: the loop, its channel and its result
    orch,           \* analyze_repository: where it stands and what it emitted
    procs           \* the processes that opened the cache directory

reachVars ==
    <<graph, visited, rpc, entry_points, pending, stack, result, calls,
      carried, work>>

pipeVars ==
    <<fs, clock, db, lastRun, cli, savedFs, disturbed, runs, fsOps, probe>>

appVars == <<watch, orch, procs>>

vars == <<reachVars, pipeVars, appVars>>

(***************************************************************************)
(* Helpers on sequences and maps.                                          *)
(***************************************************************************)
Range(s) == {s[i] : i \in DOMAIN s}

\* HashMap::get on a map kept as a function: the value, or the default.
MapGet(m, k, default) == IF k \in DOMAIN m THEN m[k] ELSE default

\* All sequences over S of length lo..hi.
SeqsOf(S, lo, hi) == UNION {[1..n -> S] : n \in lo..hi}

(***************************************************************************)
(* reachability.rs                                                         *)
(***************************************************************************)
\* The dependencies the loop at reachability.rs:107-113 pushes: those not
\* visited when the guard is evaluated, in the order of the imports list.
UnvisitedDeps(g, id, seen) ==
    SelectSeq(MapGet(g.imports, id, <<>>), LAMBDA d : d \notin seen)

\* Mutant: visited ids are marked but their dependencies are never pushed.
DfsIteration_NoPush(g, stk, seen) ==
    [stack |-> SubSeq(stk, 1, Len(stk) - 1),
     visited |-> seen \cup {stk[Len(stk)]},
     pushed |-> <<>>, marked |-> <<stk[Len(stk)]>>]

\* Mutant: the guard looks at the stack instead of the visited set, and
\* nothing is ever marked visited.
DfsIteration_GuardOnStack(g, stk, seen) ==
    LET current_id == stk[Len(stk)]
        rest == SubSeq(stk, 1, Len(stk) - 1)
        deps == SelectSeq(MapGet(g.imports, current_id, <<>>),
                          LAMBDA d : d \notin Range(rest))
    IN  [stack |-> rest \o deps, visited |-> seen, pushed |-> deps,
         marked |-> <<>>]

\* Mutant: an id popped is taken as new whether it is visited or not.
DfsIteration_NoSkip(g, stk, seen) ==
    LET current_id == stk[Len(stk)]
        rest == SubSeq(stk, 1, Len(stk) - 1)
        deps == UnvisitedDeps(g, current_id, seen \cup {current_id})
    IN  [stack |-> rest \o deps,
         visited |-> seen \cup {current_id},
         pushed |-> deps, marked |-> <<current_id>>]

\* One iteration of `while let Some(current_id) = stack.pop()`: the new
\* stack and visited set, the ids it pushed and the id it marked visited.
DfsIteration(g, stk, seen) ==
    LET current_id == stk[Len(stk)]
        rest == SubSeq(stk, 1, Len(stk) - 1)
    IN  IF current_id \in seen
        THEN [stack |-> rest, visited |-> seen, pushed |-> <<>>,
              marked |-> <<>>]
        ELSE LET deps == UnvisitedDeps(g, current_id, seen \cup {current_id})
             IN  [stack |-> rest \o deps,
                  visited |-> seen \cup {current_id},
                  pushed |-> deps, marked |-> <<current_id>>]

\* The whole while loop of dfs, run to the empty stack.
RECURSIVE DfsLoop(_, _, _)
DfsLoop(g, stk, seen) ==
    IF stk = <<>> THEN seen
    ELSE LET it == DfsIteration(g, stk, seen)
         IN  DfsLoop(g, it.stack, it.visited)

\* dfs(symbol_id): nothing for an id that is no key of symbols.
Dfs(g, symbol_id, seen) ==
    IF symbol_id \notin DOMAIN g.symbols THEN seen
    ELSE DfsLoop(g, <<symbol_id>>, seen)

RECURSIVE DfsAll(_, _, _)
DfsAll(g, eps, seen) ==
    IF eps = <<>> THEN seen
    ELSE DfsAll(g, Tail(eps), Dfs(g, Head(eps), seen))

\* ReachabilityAnalyzer::analyze as a function of the graph and the seeds.
Analyze(g, eps) ==
    IF eps = <<>> THEN [ok |-> FALSE, err |-> "NoEntryPoints", set |-> {}]
    ELSE [ok |-> TRUE, err |-> "", set |-> DfsAll(g, eps, {})]

NoResult == [ok |-> FALSE, err |-> "none", set |-> {}]

EdgeCount(g) ==
    LET RECURSIVE Sum(_)
        Sum(S) == IF S = {} THEN 0
                  ELSE LET k == CHOOSE x \in S : TRUE
                       IN  Len(g.imports[k]) + Sum(S \ {k})
    IN  Sum(DOMAIN g.imports)

\* The record of a call that has done nothing yet.
NoWork == [pushes |-> [i \in Ids |-> 0], marks |-> [i \in Ids |-> 0]]

\* How often x stands in the sequence s.
Count(s, x) == Cardinality({i \in DOMAIN s : s[i] = x})

\* A call pushes an id at most once for each seed and each edge; the
\* counters stop one above that.
WorkCap == MaxSeeds + MaxEdges + 1
Capped(n) == IF n > WorkCap THEN WorkCap ELSE n

\* The record after the ids of pushed went on the stack and those of marked
\* were inserted into visited.
Worked(w, pushed, marked) ==
    [pushes |-> [i \in Ids |-> Capped(w.pushes[i] + Count(pushed, i))],
     marks |-> [i \in Ids |-> Capped(w.marks[i] + Count(marked, i))]]

\* ReachabilityAnalyzer::new(graph): the graph as given, nothing visited.
AnalyzerNew(g) ==
    /\ graph = g
    /\ visited = {}
    /\ rpc = "new"
    /\ entry_points = <<>>
    /\ pending = <<>>
    /\ stack = <<>>
    /\ result = NoResult
    /\ calls = 0
    /\ carried = {}
    /\ work = NoWork

\* An analyzer over the symbols alone; AddImport fills in the edges.
InitAnalyzer ==
    AnalyzerNew([symbols |-> [i \in SymbolKeys |-> i], imports |-> <<>>])

\* The caller fills graph.imports before handing the graph over, as the
\* tests of reachability.rs do with imports.insert.
AddImport(from, to) ==
    /\ rpc = "new"
    /\ EdgeCount(graph) < MaxEdges
    /\ graph' = [graph EXCEPT !.imports =
                    IF from \in DOMAIN graph.imports
                    THEN [graph.imports EXCEPT ![from] = Append(@, to)]
                    ELSE (from :> <<to>>) @@ graph.imports]
    /\ UNCHANGED <<visited, rpc, entry_points, pending, stack, result>>
    /\ UNCHANGED <<calls, carried, work>>
    /\ UNCHANGED <<pipeVars, appVars>>

\* analyze(entry_points), up to the start of the for loop.
\* Mutant: the visited set is not cleared at the start of a call.
AnalyzeStart_NoClear(eps) ==
    /\ entry_points' = eps
    /\ calls' = calls + 1
    /\ carried' = visited
    /\ work' = NoWork
    /\ IF eps = <<>>
       THEN /\ result' = Analyze(graph, eps)
            /\ rpc' = "done"
            /\ UNCHANGED <<visited, pending>>
       ELSE /\ UNCHANGED visited
            /\ pending' = eps
            /\ rpc' = "loop"
            /\ result' = NoResult
    /\ UNCHANGED <<graph, stack>>
    /\ UNCHANGED <<pipeVars, appVars>>

\* reachability.rs:59-64: the empty check, then self.visited.clear().
AnalyzeStart(eps) ==
    /\ entry_points' = eps
    /\ calls' = calls + 1
    /\ carried' = visited
    /\ work' = NoWork
    /\ IF eps = <<>>
       THEN /\ result' = Analyze(graph, eps)
            /\ rpc' = "done"
            /\ UNCHANGED <<visited, pending>>
       ELSE /\ visited' = {}
            /\ pending' = eps
            /\ rpc' = "loop"
            /\ result' = NoResult
    /\ UNCHANGED <<graph, stack>>
    /\ UNCHANGED <<pipeVars, appVars>>

\* The first call on a new analyzer.
AnalyzeEnter(eps) ==
    /\ rpc = "new"
    /\ AnalyzeStart(eps)

\* A further call on the same analyzer, after the one before has returned
\* (analyze takes &mut self, so calls never overlap).
AnalyzeAgain(eps) ==
    /\ rpc = "done"
    /\ calls < MaxCalls
    /\ AnalyzeStart(eps)

\* for entry_point in entry_points { self.dfs(&entry_point) }: entering dfs.
DfsEnter ==
    /\ rpc = "loop"
    /\ pending # <<>>
    /\ IF Head(pending) \notin DOMAIN graph.symbols
       THEN /\ pending' = Tail(pending)
            /\ UNCHANGED <<stack, rpc>>
       ELSE /\ stack' = <<Head(pending)>>
            /\ rpc' = "dfs"
            /\ UNCHANGED pending
    /\ work' = Worked(work, stack', <<>>)
    /\ UNCHANGED <<graph, visited, entry_points, result>>
    /\ UNCHANGED <<calls, carried>>
    /\ UNCHANGED <<pipeVars, appVars>>

\* One iteration of the while loop of dfs.
DfsPop ==
    /\ rpc = "dfs"
    /\ stack # <<>>
    /\ LET it == DfsIteration(graph, stack, visited)
       IN  /\ stack' = it.stack
           /\ visited' = it.visited
           /\ work' = Worked(work, it.pushed, it.marked)
    /\ UNCHANGED <<graph, rpc, entry_points, pending, result>>
    /\ UNCHANGED <<calls, carried>>
    /\ UNCHANGED <<pipeVars, appVars>>

\* The while loop ends on the empty stack and dfs returns.
DfsReturn ==
    /\ rpc = "dfs"
    /\ stack = <<>>
    /\ pending' = Tail(pending)
    /\ rpc' = "loop"
    /\ UNCHANGED <<graph, visited, entry_points, stack, result>>
    /\ UNCHANGED <<calls, carried, work>>
    /\ UNCHANGED <<pipeVars, appVars>>

\* Ok(self.visited.clone())
AnalyzeReturn ==
    /\ rpc = "loop"
    /\ pending = <<>>
    /\ result' = [ok |-> TRUE, err |-> "", set |-> visited]
    /\ rpc' = "done"
    /\ UNCHANGED <<graph, visited, entry_points, pending, stack>>
    /\ UNCHANGED <<calls, carried, work>>
    /\ UNCHANGED <<pipeVars, appVars>>

AnalyzeStep == DfsEnter \/ DfsPop \/ DfsReturn \/ AnalyzeReturn

(***************************************************************************)
(* Paths.  A path is the sequence of its components (std::path::Component);*)
(* a normal component is the sequence of the dot-separated parts of its    *)
(* name, so that "src/app.test.ts" is << <<"src">>, <<"app","test","ts">> >>.*)
(***************************************************************************)
RootDir == <<"/">>
CurDir == <<".">>
ParentDir == <<"..">>

IsNormal(c) == c \notin {RootDir, CurDir, ParentDir}

\* Path::components: a "." is kept only as the first component.
Components(p) ==
    LET keep(i) == p[i] # CurDir \/ i = 1
        RECURSIVE Build(_)
        Build(i) == IF i > Len(p) THEN <<>>
                    ELSE IF keep(i) THEN <<p[i]>> \o Build(i + 1)
                    ELSE Build(i + 1)
    IN  Build(1)

\* PathBuf's Eq and Hash compare components.
PathEq(p, q) == Components(p) = Components(q)

\* Path::parent of a path that has one.
HasParent(p) == Components(p) # <<>> /\ Components(p) # <<RootDir>>
Parent(p) == LET c == Components(p) IN SubSeq(c, 1, Len(c) - 1)

\* Path::join: an absolute argument replaces the base.
Join(base, rel) ==
    IF rel # <<>> /\ rel[1] = RootDir THEN rel ELSE base \o rel

\* Path::file_name: the last component when it is a normal one.
HasFileName(p) ==
    LET c == Components(p) IN c # <<>> /\ IsNormal(c[Len(c)])
FileName(p) == LET c == Components(p) IN c[Len(c)]

\* Path::extension of a path: what follows the last dot of the file name,
\* nothing when the name has no dot or only a leading one.
Extension(p) ==
    LET name == FileName(p)
    IN  IF Len(name) = 1 \/ (Len(name) = 2 /\ name[1] = "")
        THEN ""
        ELSE name[Len(name)]

\* Path::file_stem of a file name: everything before the last dot, the whole
\* name when it has no dot or only a leading one.
FileStem(name) ==
    IF Len(name) = 1 \/ (Len(name) = 2 /\ name[1] = "")
    THEN name
    ELSE SubSeq(name, 1, Len(name) - 1)

\* Path::with_extension: the extension of the file name is replaced, or
\* added when there is none; a path without file name is left alone.
WithExtension(p, ext) ==
    IF ~HasFileName(p) THEN p
    ELSE LET c == Components(p)
         IN  SubSeq(c, 1, Len(c) - 1) \o <<FileStem(c[Len(c)]) \o <<ext>>>>

(***************************************************************************)
(* symbol_graph/resolver.rs.  An import source is the sequence of the      *)
(* "/"-separated pieces between its quotes, written like a path; the       *)
(* aliases "@/" and "~/" are a first piece <<"@">> or <<"~">>.             *)
(***************************************************************************)
AliasAt == <<"@">>
AliasTilde == <<"~">>

\* import_source.starts_with('.')
StartsWithDot(src) ==
    src # <<>> /\ (src[1] \in {CurDir, ParentDir} \/ src[1][1] = "")

\* The four prefixes resolver.rs:21-24 lets through.
IsLocalImport(src) ==
    /\ src # <<>>
    /\ \/ StartsWithDot(src)
       \/ src[1] = RootDir
       \/ src[1] \in {AliasAt, AliasTilde}

\* resolver.rs:33-45: the base path the candidates are made from.
BasePath(importer_path, src) ==
    LET import_path_str ==
            IF src[1] \in {AliasAt, AliasTilde} THEN Tail(src) ELSE src
    IN  IF /\ Len(import_path_str) >= 2
           /\ import_path_str[1] \in {CurDir, ParentDir}
        THEN Join(Parent(importer_path), import_path_str)
        ELSE import_path_str

ResolveExtensions == <<"ts", "tsx", "js", "jsx">>

\* resolver.rs:48-67: the candidates in the order they are tried.
Candidates(base_path) ==
    <<base_path>>
    \o [i \in 1..Len(ResolveExtensions) |->
            WithExtension(base_path, ResolveExtensions[i])]
    \o [i \in 1..Len(ResolveExtensions) |->
            Join(base_path, << <<"index", ResolveExtensions[i]>> >>)]

\* resolve_import_path: the first candidate that is an available file, as
\* the set {that file}; {} for None.
ResolveImportPath(importer_path, src, available_files) ==
    IF ~IsLocalImport(src) \/ ~HasParent(importer_path) THEN {}
    ELSE LET cands == Candidates(BasePath(importer_path, src))
             hits == {i \in DOMAIN cands :
                        \E f \in available_files : PathEq(f, cands[i])}
         IN  IF hits = {} THEN {}
             ELSE LET first == CHOOSE i \in hits : \A j \in hits : i <= j
                  IN  {f \in available_files : PathEq(f, cands[first])}

(***************************************************************************)
(* The source files of the model.  What tree-sitter finds in a file is     *)
(* given: its definitions (name, kind, lines, whether under an             *)
(* export_statement), the sources of its import statements and its lines   *)
(* of code.  A symbol                                                      *)
(* name is the sequence of its "_"-separated words.  The files are listed  *)
(* in ascending order of path, the order scan_directory returns them in.   *)
(***************************************************************************)
PathA == << <<"repo">>, <<"a", "ts">> >>
PathB == << <<"repo">>, <<"b", "ts">> >>
PathCli == << <<"repo">>, <<"cli", "ts">> >>
PathLibTests == << <<"repo">>, <<"lib">>, <<"__tests__", "ts">> >>
PathLibIndex == << <<"repo">>, <<"lib">>, <<"index", "ts">> >>
PathLibTypes == << <<"repo">>, <<"lib">>, <<"types", "h">> >>
PathLibWidget == << <<"repo">>, <<"lib">>, <<"widget", "ts">> >>
PathMain == << <<"repo">>, <<"src">>, <<"main", "ts">> >>
PathUtils == << <<"repo">>, <<"src">>, <<"utils", "ts">> >>

Decl(name, line_start, line_end, exported) ==
    [name |-> name, kind |-> "Function", line_start |-> line_start,
     line_end |-> line_end, is_exported |-> exported]

Catalog == <<
    \* import { funcB } from './b'; export function funcA() {..}
    [path |-> PathA, loc |-> 4,
     decls |-> <<Decl(<<"funcA">>, 3, 5, TRUE)>>,
     imports |-> << <<CurDir, <<"b">>>> >>],
    \* import { funcA } from './a'; export function funcB() {..}
    [path |-> PathB, loc |-> 4,
     decls |-> <<Decl(<<"funcB">>, 3, 5, TRUE)>>,
     imports |-> << <<CurDir, <<"a">>>> >>],
    \* function main() {..}  (not exported, no import)
    [path |-> PathCli, loc |-> 3,
     decls |-> <<Decl(<<"main">>, 1, 3, FALSE)>>,
     imports |-> <<>>],
    \* lib/__tests__.ts: import { widget } from './widget';
    \* function suite() {..}  function test_mock_loader() {..}
    \* The body of each function is one comment line, which is no line of
    \* code: 1 + 2 + 2 lines of code, the two functions spanning 3 lines each.
    [path |-> PathLibTests, loc |-> 5,
     decls |-> <<Decl(<<"suite">>, 3, 5, FALSE),
                 Decl(<<"test", "mock", "loader">>, 7, 9, FALSE)>>,
     imports |-> << <<CurDir, <<"widget">>>> >>],
    \* lib/index.ts: export function start() {..}
    [path |-> PathLibIndex, loc |-> 3,
     decls |-> <<Decl(<<"start">>, 1, 3, TRUE)>>,
     imports |-> <<>>],
    \* lib/types.h: class Foo {};  (text the JavaScript grammar accepts)
    [path |-> PathLibTypes, loc |-> 1,
     decls |-> <<[Decl(<<"Foo">>, 1, 1, FALSE) EXCEPT !.kind = "Class"]>>,
     imports |-> <<>>],
    \* lib/widget.ts: export function widget() {..}
    \* function registerPlugin_foo() {..}
    \* export function session_handler() {..}
    \* export function mock_loader() {..}  export default function () {..}
    [path |-> PathLibWidget, loc |-> 15,
     decls |-> <<Decl(<<"widget">>, 1, 3, TRUE),
                 Decl(<<"registerPlugin", "foo">>, 5, 7, FALSE),
                 Decl(<<"session", "handler">>, 9, 11, TRUE),
                 Decl(<<"mock", "loader">>, 13, 15, TRUE),
                 Decl(<<>>, 17, 19, TRUE)>>,
     imports |-> <<>>],
    \* import { helper } from './utils'; export function run() { helper() }
    [path |-> PathMain, loc |-> 4,
     decls |-> <<Decl(<<"run">>, 3, 5, TRUE)>>,
     imports |-> << <<CurDir, <<"utils">>>> >>],
    \* export function helper() {..}; export function leftover() {..}
    [path |-> PathUtils, loc |-> 6,
     decls |-> <<Decl(<<"helper">>, 1, 3, TRUE),
                 Decl(<<"leftover">>, 5, 7, TRUE)>>,
     imports |-> <<>>] >>

\* The paths of the catalog, in ascending order.
PathOrder == [i \in DOMAIN Catalog |-> Catalog[i].path]
AllPaths == Range(PathOrder)
\* The files the trees of the pipeline model are made of.
TreePaths == {PathA, PathB, PathCli, PathMain, PathUtils}
\* The trees of lib/, with and without the test file and the header.
LabTrees ==
    {{PathLibIndex, PathLibWidget},
     {PathLibTests, PathLibIndex, PathLibWidget},
     {PathLibTests, PathLibWidget},
     {PathLibIndex, PathLibTypes},
     {PathLibTests, PathLibIndex, PathLibTypes, PathLibWidget}}
Source(path) == Catalog[CHOOSE i \in DOMAIN Catalog : Catalog[i].path = path]
\* The position of a path in the ascending order of the paths.
PathRank(path) == CHOOSE i \in DOMAIN PathOrder : PathOrder[i] = path

\* files.sort() of scanner.rs:114: the paths of S in ascending order.
SortedPaths(S) == SelectSeq(PathOrder, LAMBDA p : p \in S)

\* scanner.rs:106-112: the extensions of the files scan_directory returns.
ScannerExtensions ==
    {"ts", "tsx", "js", "jsx", "rs", "py", "go", "cpp", "cc", "cxx", "hpp", "h"}

\* scan_directory: the files with a supported extension, sorted.
ScanDirectory(files) ==
    SortedPaths({f \in DOMAIN files : Extension(f) \in ScannerExtensions})

RECURSIVE Concat(_)
Concat(seqs) == IF seqs = <<>> THEN <<>> ELSE Head(seqs) \o Concat(Tail(seqs))

(***************************************************************************)
(* symbol_graph/extractors.rs and symbol_graph/builder.rs                  *)
(***************************************************************************)
\* extractors.rs is_test_file: substring tests on the whole path string.
ExtractorIsTestFile(path) ==
    \/ \E i \in DOMAIN path : IsNormal(path[i]) /\
          \E k \in 2..(Len(path[i]) - 1) : path[i][k] \in {"test", "spec"}
    \/ \E i \in DOMAIN path : IsNormal(path[i]) /\
          \E k \in DOMAIN path[i] : path[i][k] = "__tests__"
    \/ \E i \in 2..(Len(path) - 1) : path[i] \in {<<"test">>, <<"tests">>}
    \/ Len(path) >= 2 /\ path[1] \in {<<"test">>, <<"tests">>}

\* format!("{}:{}:{}", path.display(), line_start, name)
SymbolIdOf(path, line_start, name) == <<path, line_start, name>>

\* extract_symbols: the symbols of one file in the order they are found.
ExtractSymbols(path) ==
    LET decls == SelectSeq(Source(path).decls, LAMBDA d : d.name # <<>>)
    IN  [i \in DOMAIN decls |->
            [id |-> SymbolIdOf(path, decls[i].line_start, decls[i].name),
             name |-> decls[i].name,
             kind |-> decls[i].kind,
             path |-> path,
             line_start |-> decls[i].line_start,
             line_end |-> decls[i].line_end,
             is_exported |-> decls[i].is_exported,
             is_test |-> ExtractorIsTestFile(path)]]

\* Mutant: every exported declaration counts, a nameless one too.
FileExports_AllDecls(path) ==
    LET decls == SelectSeq(Source(path).decls, LAMBDA d : d.is_exported)
    IN  [i \in DOMAIN decls |->
            SymbolIdOf(path, decls[i].line_start, decls[i].name)]

\* builder.rs:196-202: the ids of the exported symbols of one file.
FileExports(path) ==
    LET syms == SelectSeq(ExtractSymbols(path), LAMBDA sy : sy.is_exported)
    IN  [i \in DOMAIN syms |-> syms[i].id]

\* builder.rs:217-220: only a file with exported symbols gets an entry.
ExportedFiles(files) == {f \in Range(files) : FileExports(f) # <<>>}

\* Mutant: an import edge leads to the first exported symbol only.
ImportedExports_FirstOnly(path, src, files) ==
    LET hit == ResolveImportPath(path, src, Range(files))
                   \cap ExportedFiles(files)
    IN  IF hit = {} THEN <<>>
        ELSE <<FileExports(CHOOSE f \in hit : TRUE)[1]>>

\* builder.rs:252-272: what one import statement of the file at path adds
\* to the imports list of every symbol of that file.
ImportedExports(path, src, files) ==
    LET hit == ResolveImportPath(path, src, Range(files))
                   \cap ExportedFiles(files)
    IN  IF hit = {} THEN <<>> ELSE FileExports(CHOOSE f \in hit : TRUE)

FileDeps(path, files) ==
    LET srcs == Source(path).imports
    IN  Concat([i \in DOMAIN srcs |-> ImportedExports(path, srcs[i], files)])

\* SymbolGraphBuilder::build_graph on the files in the given order.
BuildGraph(files) ==
    LET syms == UNION {Range(ExtractSymbols(f)) : f \in Range(files)}
        byId == [id \in {sy.id : sy \in syms} |->
                    CHOOSE sy \in syms : sy.id = id]
        keys == {sy.id : sy \in {x \in syms : FileDeps(x.path, files) # <<>>}}
    IN  [symbols |-> byId,
         imports |-> [id \in keys |-> FileDeps(byId[id].path, files)],
         exports |-> [f \in ExportedFiles(files) |-> FileExports(f)]]

EmptyGraph == [symbols |-> <<>>, imports |-> <<>>, exports |-> <<>>]

(***************************************************************************)
(* entry_points.rs                                                         *)
(***************************************************************************)
\* entry_points.rs is_test_file: ".test." or ".spec." in the file name.
EntryIsTestFile(path) ==
    /\ HasFileName(path)
    /\ \E k \in 2..(Len(FileName(path)) - 1) :
          FileName(path)[k] \in {"test", "spec"}

IsEntryFile(path) ==
    /\ HasFileName(path)
    /\ \/ /\ Len(FileName(path)) = 2
          /\ FileName(path)[1] \in {"main", "index"}
          /\ FileName(path)[2] \in {"ts", "tsx", "js", "jsx"}
       \/ FileName(path) = <<"lib", "rs">>

IsEntryPoint(symbol, path) ==
    \/ symbol.name = <<"main">>
    \/ EntryIsTestFile(path)
    \/ (symbol.is_exported /\ IsEntryFile(path))

\* The order of two symbol ids: by file, then by line.
IdBefore(a, b) ==
    \/ PathRank(a[1]) < PathRank(b[1])
    \/ (a[1] = b[1] /\ a[2] <= b[2])

\* The ids of S in a fixed order (rev: the opposite one); HashMap iteration
\* order is not defined, the callers below take either.
RECURSIVE IdsInOrder(_, _)
IdsInOrder(S, rev) ==
    IF S = {} THEN <<>>
    ELSE LET pick == IF rev
                     THEN CHOOSE x \in S : \A y \in S : IdBefore(y, x)
                     ELSE CHOOSE x \in S : \A y \in S : IdBefore(x, y)
         IN  <<pick>> \o IdsInOrder(S \ {pick}, rev)

\* detect_entry_points.  The two loops run over HashMaps: rev picks one of
\* two iteration orders, the list holds the same ids under either.
DetectEntryPoints(g, rev) ==
    LET first == IdsInOrder({id \in DOMAIN g.symbols :
                     IsEntryPoint(g.symbols[id], g.symbols[id].path)}, rev)
        more  == IdsInOrder(
                     UNION {Range(g.exports[f]) :
                              f \in {x \in DOMAIN g.exports : IsEntryFile(x)}}
                     \ Range(first), rev)
    IN  first \o more

(***************************************************************************)
(* confidence.rs                                                           *)
(***************************************************************************)
ExportedPenalty == 30
RecentPenalty == 20
DynamicPenalty == 25
TestedPenalty == 15
RecentWindowSecs == 30 * 24 * 60 * 60

\* str::to_lowercase on one word of a name.
ToLower(w) ==
    CASE w = "funcA" -> "funca"
      [] w = "funcB" -> "funcb"
      [] w = "registerPlugin" -> "registerplugin"
      [] w = "Foo" -> "foo"
      [] OTHER -> w

DynamicWords == {"handler", "plugin", "loader", "middleware", "hook"}

\* Mutant: a stem counts wherever it stands in the name, inside a word too.
CouldBeDynamicImport_AnyStem(name) ==
    \E i \in DOMAIN name :
        \/ ToLower(name[i]) \in DynamicWords
        \/ ToLower(name[i]) = "registerplugin"

\* could_be_dynamic_import: the lowered name ends with "_<word>" or starts
\* with "<word>_".
CouldBeDynamicImport(name) ==
    /\ Len(name) >= 2
    /\ \/ ToLower(name[Len(name)]) \in DynamicWords
       \/ ToLower(name[1]) \in DynamicWords

\* recently_modified, file system branch: files maps the files that exist to
\* their modification time in seconds, now is the clock.
RecentlyModified(path, files, now) ==
    /\ path \in DOMAIN files
    /\ now >= files[path]
    /\ now - files[path] < RecentWindowSecs

\* str::contains at the granularity of the words of a name.
NameContains(hay, needle) ==
    \E i \in 0..(Len(hay) - Len(needle)) :
        SubSeq(hay, i + 1, i + Len(needle)) = needle

\* has_test_coverage
HasTestCoverage(symbol, g) ==
    LET test_symbols == {id \in DOMAIN g.symbols : g.symbols[id].is_test}
    IN  \/ \E t \in test_symbols :
              NameContains(g.symbols[t].name, symbol.name)
        \/ \E t \in test_symbols :
              /\ g.symbols[t].path \in DOMAIN g.exports
              /\ \E x \in Range(g.exports[g.symbols[t].path]) :
                    symbol.id \in Range(MapGet(g.imports, x, <<>>))

Clamp(n) == IF n < 0 THEN 0 ELSE IF n > 100 THEN 100 ELSE n

\* Mutant: the exported penalty is not taken.
Calculate_NoExportPenalty(symbol, g, files, now) ==
    Clamp(100
          - (IF RecentlyModified(symbol.path, files, now)
             THEN RecentPenalty ELSE 0)
          - (IF CouldBeDynamicImport(symbol.name) THEN DynamicPenalty ELSE 0)
          - (IF HasTestCoverage(symbol, g) THEN TestedPenalty ELSE 0))

\* Mutant: the penalties do not stack, only the largest one is taken.
Calculate_LargestOnly(symbol, g, files, now) ==
    Clamp(100
          - (IF symbol.is_exported THEN ExportedPenalty
             ELSE IF CouldBeDynamicImport(symbol.name) THEN DynamicPenalty
             ELSE IF RecentlyModified(symbol.path, files, now)
             THEN RecentPenalty
             ELSE IF HasTestCoverage(symbol, g) THEN TestedPenalty ELSE 0))

\* ConfidenceCalculator::calculate
Calculate(symbol, g, files, now) ==
    Clamp(100
          - (IF symbol.is_exported THEN ExportedPenalty ELSE 0)
          - (IF RecentlyModified(symbol.path, files, now)
             THEN RecentPenalty ELSE 0)
          - (IF CouldBeDynamicImport(symbol.name) THEN DynamicPenalty ELSE 0)
          - (IF HasTestCoverage(symbol, g) THEN TestedPenalty ELSE 0))

(***************************************************************************)
(* reachability.rs identify_dead_code and the report of lib.rs             *)
(***************************************************************************)
\* identify_dead_code: the unreachable symbols, in HashMap iteration order.
IdentifyDeadCode(g, reachable, rev) ==
    LET ids == IdsInOrder(DOMAIN g.symbols \ reachable, rev)
    IN  [i \in DOMAIN ids |-> g.symbols[ids[i]]]

\* line_end.saturating_sub(line_start) + 1
Loc(symbol) ==
    (IF symbol.line_end >= symbol.line_start
     THEN symbol.line_end - symbol.line_start ELSE 0) + 1

RECURSIVE SumSeq(_)
SumSeq(q) == IF q = <<>> THEN 0 ELSE Head(q) + SumSeq(Tail(q))

RECURSIVE SumOver(_, _)
SumOver(S, f) ==
    IF S = {} THEN 0
    ELSE LET x == CHOOSE y \in S : TRUE IN f[x] + SumOver(S \ {x}, f)

\* lib.rs:224-246: one entry of the report.
DeadSymbolOf(symbol, g, files, now) ==
    [symbol |-> symbol.name,
     kind |-> symbol.kind,
     line_start |-> symbol.line_start,
     line_end |-> symbol.line_end,
     loc |-> Loc(symbol),
     confidence |-> Calculate(symbol, g, files, now),
     reason |-> "Unreachable from entry points",
     last_modified |-> "None"]

EmptyReport ==
    [summary |-> [total_files |-> 0, files_with_dead_code |-> 0,
                  dead_functions |-> 0, dead_classes |-> 0,
                  total_dead_loc |-> 0,
                  dead_code_ratio |-> [num |-> 0, den |-> 1]],
     files |-> <<>>]

\* lib.rs:216-297: the report for the dead symbols of step 5.
\* dead_code_ratio is kept as the fraction total_dead_loc / total_loc, 0.0
\* as 0 / 1.
ReportOf(dead, g, files, now) ==
    LET paths == SortedPaths({dead[i].path : i \in DOMAIN dead})
        ofFile(f) == SelectSeq(dead, LAMBDA sy : sy.path = f)
        total_dead_loc == SumSeq([i \in DOMAIN dead |-> Loc(dead[i])])
        total_loc == SumOver(DOMAIN g.symbols,
                             [id \in DOMAIN g.symbols |-> Loc(g.symbols[id])])
        isFn(sy) == sy.kind \in {"Function", "ArrowFunction", "Method"}
    IN  [summary |->
            [total_files |-> Len(paths),
             files_with_dead_code |-> Len(paths),
             dead_functions |-> Len(SelectSeq(dead, isFn)),
             dead_classes |->
                 Len(SelectSeq(dead, LAMBDA sy : sy.kind = "Class")),
             total_dead_loc |-> total_dead_loc,
             dead_code_ratio |->
                 IF total_loc > 0
                 THEN [num |-> total_dead_loc, den |-> total_loc]
                 ELSE [num |-> 0, den |-> 1]],
         files |-> [i \in DOMAIN paths |->
                       [path |-> paths[i],
                        dead_code |->
                            [k \in DOMAIN ofFile(paths[i]) |->
                                DeadSymbolOf(ofFile(paths[i])[k],
                                             g, files, now)]]]]

\* lib.rs:209-297: steps 5 and 6.
Report(g, reachable, files, now, rev) ==
    ReportOf(IdentifyDeadCode(g, reachable, rev), g, files, now)

\* lib.rs:201-297: the result of analyze, then steps 5 and 6.
AfterAnalyze(g, r, files, now, rev) ==
    IF ~r.ok
    THEN [ok |-> FALSE, err |-> "ReachabilityError", report |-> EmptyReport]
    ELSE [ok |-> TRUE, err |-> "none",
          report |-> Report(g, r.set, files, now, rev)]

\* Mutant: the check of lib.rs:187-190 is left to the analyzer.
AfterEntryPoints_NoCheck(g, entry_pts, files, now, rev) ==
    AfterAnalyze(g, Analyze(g, entry_pts), files, now, rev)

\* lib.rs:187-297: the check of the entry points, then steps 4 to 6.
AfterEntryPoints(g, entry_pts, files, now, rev) ==
    IF entry_pts = <<>>
    THEN [ok |-> FALSE, err |-> "NoEntryPoints", report |-> EmptyReport]
    ELSE AfterAnalyze(g, Analyze(g, entry_pts), files, now, rev)

\* analyze_dead_code from step 3 on, for the graph of step 2.
AfterGraph(g, files, now, rev) ==
    AfterEntryPoints(g, DetectEntryPoints(g, rev), files, now, rev)

(***************************************************************************)
(* cache.rs.  The store holds at most the one key "symbol_graph"; db is    *)
(* what is stored under it: nothing, bytes that bincode cannot decode, or  *)
(* an encoded CachedSymbolGraph.  An operation takes the store and the     *)
(* failure the environment injects into the run, and returns the store     *)
(* next to its result.                                                     *)
(***************************************************************************)
CACHE_VERSION == 1

NoEntry == [kind |-> "none"]
Garbage == [kind |-> "garbage"]
Entry(version, timestamp, g, file_hashes) ==
    [kind |-> "entry", version |-> version, timestamp |-> timestamp,
     graph |-> g, file_hashes |-> file_hashes]

CacheFaults ==
    {"mkdir", "open_once", "open_twice", "get_stale", "get_load",
     "serialize", "insert", "flush_lost", "flush_kept"}
Faults == {"none", "read"} \cup CacheFaults

\* SymbolGraphCache::new.  A first failure of sled::open removes the
\* database directory and opens an empty one.
CacheNew(store, fault) ==
    CASE fault = "mkdir" ->
             [ok |-> FALSE, err |-> "CacheError::Io", db |-> store]
      [] fault = "open_once" ->
             [ok |-> TRUE, err |-> "none", db |-> NoEntry]
      [] fault = "open_twice" ->
             [ok |-> FALSE, err |-> "CacheError::DatabaseOpen", db |-> NoEntry]
      [] OTHER ->
             [ok |-> TRUE, err |-> "none", db |-> store]

\* cache.rs:106: the files save computes a hash for.
ManifestFiles(g) == DOMAIN g.exports

\* The hash of a file: the seconds of its modification time.
HashOf(path, files) == files[path]

\* SymbolGraphCache::save
Save(store, g, files, now, fault) ==
    LET file_hashes == [f \in ManifestFiles(g) \cap DOMAIN files |->
                           HashOf(f, files)]
        cached == Entry(CACHE_VERSION, now, g, file_hashes)
    IN  CASE fault = "serialize" ->
                 [ok |-> FALSE, err |-> "CacheError::Serialization",
                  db |-> store]
          [] fault = "insert" ->
                 [ok |-> FALSE, err |-> "CacheError::DatabaseOpen",
                  db |-> store]
          [] fault = "flush_lost" ->
                 [ok |-> FALSE, err |-> "CacheError::DatabaseOpen",
                  db |-> store]
          [] fault = "flush_kept" ->
                 [ok |-> FALSE, err |-> "CacheError::DatabaseOpen",
                  db |-> cached]
          [] OTHER ->
                 [ok |-> TRUE, err |-> "none", db |-> cached]

\* Mutant: an entry that does not decode or has another version stays.
Load_KeepsEntry(store, fault) ==
    IF fault = "get_load" \/ store.kind = "none"
    THEN [found |-> FALSE, graph |-> EmptyGraph, db |-> store]
    ELSE IF store.kind = "garbage" \/ store.version # CACHE_VERSION
    THEN [found |-> FALSE, graph |-> EmptyGraph, db |-> store]
    ELSE [found |-> TRUE, graph |-> store.graph, db |-> store]

\* SymbolGraphCache::load
Load(store, fault) ==
    IF fault = "get_load" \/ store.kind = "none"
    THEN [found |-> FALSE, graph |-> EmptyGraph, db |-> store]
    ELSE IF store.kind = "garbage"
    THEN [found |-> FALSE, graph |-> EmptyGraph, db |-> NoEntry]
    ELSE IF store.version # CACHE_VERSION
    THEN [found |-> FALSE, graph |-> EmptyGraph, db |-> NoEntry]
    ELSE [found |-> TRUE, graph |-> store.graph, db |-> store]

\* SymbolGraphCache::invalidate_if_stale
InvalidateIfStale(store, file_list, files, fault) ==
    IF fault = "get_stale" \/ store.kind = "none"
    THEN [stale |-> TRUE, db |-> store]
    ELSE IF store.kind = "garbage"
    THEN [stale |-> TRUE, db |-> NoEntry]
    ELSE IF store.version # CACHE_VERSION
    THEN [stale |-> TRUE, db |-> NoEntry]
    ELSE IF \E i \in DOMAIN file_list :
               \/ file_list[i] \notin DOMAIN files
               \/ file_list[i] \notin DOMAIN store.file_hashes
               \/ store.file_hashes[file_list[i]]
                      # HashOf(file_list[i], files)
    THEN [stale |-> TRUE, db |-> NoEntry]
    ELSE IF \E f \in DOMAIN store.file_hashes : f \notin Range(file_list)
    THEN [stale |-> TRUE, db |-> NoEntry]
    ELSE [stale |-> FALSE, db |-> store]

(***************************************************************************)
(* lib.rs: the pipeline                                                    *)
(***************************************************************************)
\* build_graph for every set of files, worked out once and looked up.
GraphTable ==
    {<<S, BuildGraph(SortedPaths(S))>> : S \in (SUBSET TreePaths) \cup LabTrees}
GraphOfFiles(S) == (CHOOSE p \in GraphTable : p[1] = S)[2]

\* build_graph_from_files: any file that cannot be read fails the build.
BuildGraphFromFiles(file_list, fault) ==
    IF fault = "read" /\ file_list # <<>>
    THEN [ok |-> FALSE, err |-> "Io", graph |-> EmptyGraph]
    ELSE [ok |-> TRUE, err |-> "none", graph |-> GraphOfFiles(Range(file_list))]

GraphFailed(err, store, stale, wrote) ==
    [ok |-> FALSE, err |-> err, graph |-> EmptyGraph, db |-> store,
     route |-> "failed", stale |-> stale, wrote |-> wrote]

\* lib.rs:327-333: the graph is built; save it and return it.
AfterBuild(built, saved, before, stale) ==
    IF ~saved.ok
    THEN GraphFailed(saved.err, saved.db, stale, saved.db # before)
    ELSE [ok |-> TRUE, err |-> "none", graph |-> built.graph,
          db |-> saved.db, route |-> "rebuilt", stale |-> stale,
          wrote |-> TRUE]

\* lib.rs:326-333: build_graph_from_files(files)?, cache.save(&graph)?
BuildAndSave(built, store, files, now, fault, stale) ==
    IF ~built.ok THEN GraphFailed(built.err, store, stale, FALSE)
    ELSE AfterBuild(built, Save(store, built.graph, files, now, fault),
                    store, stale)

\* lib.rs:318-333: the cache is not stale; load, and build if nothing loads.
AfterLoad(loaded, file_list, files, now, fault) ==
    IF loaded.found
    THEN [ok |-> TRUE, err |-> "none", graph |-> loaded.graph,
          db |-> loaded.db, route |-> "loaded", stale |-> FALSE,
          wrote |-> FALSE]
    ELSE BuildAndSave(BuildGraphFromFiles(file_list, fault), loaded.db,
                      files, now, fault, FALSE)

\* lib.rs:316-333: after invalidate_if_stale.
AfterCheck(check, file_list, files, now, fault) ==
    IF check.stale
    THEN BuildAndSave(BuildGraphFromFiles(file_list, fault), check.db,
                      files, now, fault, TRUE)
    ELSE AfterLoad(Load(check.db, fault), file_list, files, now, fault)

\* lib.rs:313-333: after SymbolGraphCache::new.
AfterOpen(opened, file_list, files, now, fault) ==
    IF ~opened.ok THEN GraphFailed(opened.err, opened.db, FALSE, FALSE)
    ELSE AfterCheck(InvalidateIfStale(opened.db, file_list, files, fault),
                    file_list, files, now, fault)

\* load_or_build_graph
LoadOrBuildGraph(file_list, store, files, now, fault) ==
    AfterOpen(CacheNew(store, fault), file_list, files, now, fault)

\* lib.rs:171-175 with enable_cache false: build_graph_from_files alone.
WithoutCache(built, store) ==
    [ok |-> built.ok, err |-> built.err, graph |-> built.graph,
     db |-> store, route |-> IF built.ok THEN "rebuilt" ELSE "failed",
     stale |-> FALSE, wrote |-> FALSE]

NoOutcome == [ok |-> FALSE, err |-> "none", report |-> EmptyReport]

\* lib.rs:177-297: the rest of analyze_dead_code once step 2 has returned.
AfterStep2(file_list, got, files, now, rev) ==
    [files |-> file_list, route |-> got.route, stale |-> got.stale,
     wrote |-> got.wrote, has_graph |-> got.ok, graph |-> got.graph,
     db |-> got.db,
     outcome |-> IF got.ok
                 THEN AfterGraph(got.graph, files, now, rev)
                 ELSE [ok |-> FALSE, err |-> got.err,
                       report |-> EmptyReport]]

\* lib.rs:154-297: analyze_dead_code once scan_directory has returned.
AfterScan(file_list, files, now, store, enable_cache, fault, rev) ==
    IF file_list = <<>>
    THEN [files |-> file_list, route |-> "none", stale |-> FALSE,
          wrote |-> FALSE, has_graph |-> FALSE, graph |-> EmptyGraph,
          db |-> store,
          outcome |-> [ok |-> TRUE, err |-> "none", report |-> EmptyReport]]
    ELSE AfterStep2(file_list,
                    IF enable_cache
                    THEN LoadOrBuildGraph(file_list, store, files, now, fault)
                    ELSE WithoutCache(BuildGraphFromFiles(file_list, fault),
                                      store),
                    files, now, rev)

\* analyze_dead_code: its result, and with it what the call left in the
\* store and how it came by the graph.  scan_directory returns the files
\* that exist, sorted.
AnalyzeDeadCode(files, now, store, enable_cache, fault, rev) ==
    AfterScan(ScanDirectory(files), files, now, store, enable_cache,
              fault, rev)

(***************************************************************************)
(* code-viz-cli/src/commands/analyze.rs                                    *)
(***************************************************************************)
\* code_viz_core::analyze: one FileMetrics per file, sorted by path; the
\* dead-code fields start as None.
Metrics(files) ==
    LET file_list == SortedPaths(DOMAIN files)
    IN  [i \in DOMAIN file_list |->
            [path |-> file_list[i], loc |-> Source(file_list[i]).loc,
             dead_function_count |-> "None", dead_code_loc |-> "None",
             dead_code_ratio |-> "None"]]

\* perform_dead_code_analysis, lines 217-259: the dead-code fields of the
\* files the report lists.
WithDeadCode(metrics, report) ==
    LET info(f) == CHOOSE e \in Range(report.files) : e.path = f
        fns(e) == SelectSeq(e.dead_code, LAMBDA d :
                      d.kind \in {"Function", "ArrowFunction", "Method"})
        dead_loc(e) == SumSeq([i \in DOMAIN e.dead_code |-> e.dead_code[i].loc])
    IN  [i \in DOMAIN metrics |->
            IF \E e \in Range(report.files) : e.path = metrics[i].path
            THEN [metrics[i] EXCEPT
                     !.dead_function_count = Len(fns(info(metrics[i].path))),
                     !.dead_code_loc = dead_loc(info(metrics[i].path)),
                     !.dead_code_ratio =
                         IF metrics[i].loc > 0
                         THEN [num |-> dead_loc(info(metrics[i].path)),
                               den |-> metrics[i].loc]
                         ELSE [num |-> 0, den |-> 1]]
            ELSE metrics[i]]

\* run, with no baseline and no threshold: what it prints and returns.
RunCommand(files, dead_code, outcome) ==
    IF dead_code /\ ~outcome.ok
    THEN [ran |-> TRUE, dead_code |-> dead_code, ok |-> FALSE,
          err |-> "DeadCodeFailed", printed |-> FALSE, output |-> <<>>]
    ELSE [ran |-> TRUE, dead_code |-> dead_code, ok |-> TRUE, err |-> "none",
          printed |-> TRUE,
          output |-> IF dead_code
                     THEN WithDeadCode(Metrics(files), outcome.report)
                     ELSE Metrics(files)]

(***************************************************************************)
(* The pipeline as a state machine: runs of the analysis, and between them *)
(* the changes a user makes to the source tree.                            *)
(***************************************************************************)
NoRun ==
    [ran |-> FALSE, fault |-> "none",
     files |-> <<>>, route |-> "none", stale |-> FALSE, wrote |-> FALSE,
     has_graph |-> FALSE, graph |-> EmptyGraph, outcome |-> NoOutcome]

NoCommand ==
    [ran |-> FALSE, dead_code |-> FALSE, ok |-> FALSE, err |-> "none",
     printed |-> FALSE, output |-> <<>>]

NoSnapshot == [taken |-> FALSE, files |-> <<>>]

\* No library function has been called directly.
NoProbe == [n |-> 0, op |-> "none"]

\* No application has been started.
NoWatch == [pc |-> "off"]
NoOrch == [pc |-> "off"]
NoProcs == <<>>
AppIdle == watch = NoWatch /\ orch = NoOrch /\ procs = NoProcs

\* The pipeline before its first run, on the tree it is given.
PipeStart(tree, t0) ==
    /\ fs = tree
    /\ clock = t0
    /\ db = NoEntry
    /\ lastRun = NoRun
    /\ cli = NoCommand
    /\ savedFs = NoSnapshot
    /\ disturbed = FALSE
    /\ runs = 0
    /\ fsOps = 0
    /\ probe = NoProbe
    /\ AppIdle

\* The kind of failure a run met: none, one of the cache, one of reading.
FaultKind(fault) ==
    IF fault \in CacheFaults THEN "cache" ELSE fault

\* The record of a call next to what the call returned.
RunRecord(r, fault) ==
    [ran |-> TRUE, fault |-> FaultKind(fault),
     files |-> r.files, route |-> r.route, stale |-> r.stale,
     wrote |-> r.wrote, has_graph |-> r.has_graph, graph |-> r.graph,
     outcome |-> r.outcome]

\* The tree the entry in the store was saved for.
Snapshot(r) ==
    IF r.wrote THEN [taken |-> TRUE, files |-> fs]
    ELSE IF r.db = db THEN savedFs
    ELSE NoSnapshot

\* code-viz analyze [--dead-code]
AnalyzeCommand(dead_code, fault, rev) ==
    /\ runs < MaxRuns
    /\ dead_code \/ fault = "none"
    /\ IF dead_code
       THEN \E r \in {AnalyzeDeadCode(fs, clock, db, TRUE, fault, rev)} :
                /\ db' = r.db
                /\ lastRun' = RunRecord(r, fault)
                /\ savedFs' = Snapshot(r)
                /\ cli' = RunCommand(fs, TRUE, r.outcome)
                /\ disturbed' = FALSE
       ELSE /\ cli' = RunCommand(fs, FALSE, NoOutcome)
            /\ UNCHANGED <<db, lastRun, savedFs, disturbed>>
    /\ runs' = runs + 1
    /\ UNCHANGED <<fs, clock, fsOps>>
    /\ UNCHANGED probe
    /\ UNCHANGED <<reachVars, appVars>>

\* The user edits a file: its modification time becomes the time of the edit.
Touch(f) ==
    /\ fsOps < MaxFsOps
    /\ f \in DOMAIN fs
    /\ clock' = clock + 1
    /\ fs' = [fs EXCEPT ![f] = clock']
    /\ disturbed' = TRUE
    /\ fsOps' = fsOps + 1
    /\ UNCHANGED <<db, lastRun, cli, savedFs, runs>>
    /\ UNCHANGED probe
    /\ UNCHANGED <<reachVars, appVars>>

\* The user adds a file to the tree.
AddFile(f) ==
    /\ fsOps < MaxFsOps
    /\ f \in AllPaths \ DOMAIN fs
    /\ clock' = clock + 1
    /\ fs' = (f :> clock') @@ fs
    /\ disturbed' = TRUE
    /\ fsOps' = fsOps + 1
    /\ UNCHANGED <<db, lastRun, cli, savedFs, runs>>
    /\ UNCHANGED probe
    /\ UNCHANGED <<reachVars, appVars>>

\* The user removes a file from the tree.
RemoveFile(f) ==
    /\ fsOps < MaxFsOps
    /\ f \in DOMAIN fs
    /\ fs' = [x \in DOMAIN fs \ {f} |-> fs[x]]
    /\ disturbed' = TRUE
    /\ fsOps' = fsOps + 1
    /\ UNCHANGED <<clock, db, lastRun, cli, savedFs, runs>>
    /\ UNCHANGED probe
    /\ UNCHANGED <<reachVars, appVars>>

\* Something else writes the key: bytes that do not decode, or an entry of
\* another schema version (cache.rs tests, lines 384-423).
ForeignEntry(entry) ==
    /\ fsOps < MaxFsOps
    /\ db' = entry
    /\ savedFs' = NoSnapshot
    /\ disturbed' = TRUE
    /\ fsOps' = fsOps + 1
    /\ UNCHANGED <<fs, clock, lastRun, cli, runs>>
    /\ UNCHANGED probe
    /\ UNCHANGED <<reachVars, appVars>>

ForeignEntries == {Garbage, Entry(CACHE_VERSION + 1, 0, EmptyGraph, <<>>)}

\* A caller opens the store and calls load on it, as the tests of cache.rs
\* do; db.get may fail.
LoadCall(fault) ==
    /\ probe.n < MaxProbes
    /\ \E r \in {Load(db, fault)} :
          /\ db' = r.db
          /\ probe' = [n |-> probe.n + 1, op |-> "load", before |-> db,
                       fault |-> fault, ok |-> TRUE, found |-> r.found, graph |-> r.graph]
          /\ savedFs' = IF r.db = db THEN savedFs ELSE NoSnapshot
          /\ disturbed' = (disturbed \/ r.db # db)
    /\ UNCHANGED <<fs, clock, lastRun, cli, runs, fsOps>>
    /\ UNCHANGED <<reachVars, appVars>>

(***************************************************************************)
(* code-viz-core/src/analyzer.rs.  An AnalysisResult is its files, each    *)
(* with path and loc, and its summary.                                     *)
(***************************************************************************)
TopN == 10

\* process_file: the metrics of one file.
ProcessFile(path) == [path |-> path, loc |-> Source(path).loc]

\* sort_by(|a, b| b.loc.cmp(&a.loc))
LocDescending(a, b) == a.loc >= b.loc
\* sort_by(|a, b| a.path.cmp(&b.path))
PathAscending(a, b) == PathRank(a.path) <= PathRank(b.path)

NotAfter(a, b, by) ==
    IF by = "loc" THEN LocDescending(a, b) ELSE PathAscending(a, b)

\* Vec::sort_by is stable: f goes behind every element that is not after it.
RECURSIVE InsertSorted(_, _, _)
InsertSorted(sorted, f, by) ==
    IF sorted = <<>> THEN <<f>>
    ELSE IF NotAfter(Head(sorted), f, by)
    THEN <<Head(sorted)>> \o InsertSorted(Tail(sorted), f, by)
    ELSE <<f>> \o sorted

RECURSIVE StableSort(_, _)
StableSort(q, by) ==
    IF q = <<>> THEN <<>>
    ELSE InsertSorted(StableSort(SubSeq(q, 1, Len(q) - 1), by), q[Len(q)], by)

\* calculate_summary
CalculateSummary(files) ==
    LET sorted_files == StableSort(files, "loc")
        taken == SubSeq(sorted_files, 1,
                        IF Len(sorted_files) < TopN THEN Len(sorted_files)
                        ELSE TopN)
    IN  [total_files |-> Len(files),
         total_loc |-> SumSeq([i \in DOMAIN files |-> files[i].loc]),
         largest_files |-> [i \in DOMAIN taken |-> taken[i].path]]

\* analyze: the files of the scan, processed and sorted by path.
CoreAnalyze(files) ==
    LET scanned == ScanDirectory(files)
        results == StableSort([i \in DOMAIN scanned |-> ProcessFile(scanned[i])],
                              "path")
    IN  [files |-> results, summary |-> CalculateSummary(results)]

(***************************************************************************)
(* code-viz-cli/src/commands/watch.rs.  Time is counted in units of 100    *)
(* ms.  The channel holds the events the watcher sent and the loop has not *)
(* received; an event is Ok with the paths it names, or an error.          *)
(***************************************************************************)
RecvTimeout == 5
DebounceWindow == 1
MaxQueue == 1

WatchPaths == {PathA, PathB}
WatchExtensions == {"ts", "tsx", "js", "jsx", "rs", "py"}

\* add_paths_from_event
AddPathsFromEvent(paths, event) ==
    paths \cup {f \in event.paths : Extension(f) \in WatchExtensions}

\* watch.rs:152-193: one path of the batch.
HandlePath(r, path, files) ==
    IF path \in DOMAIN files
    THEN [updated |-> TRUE,
          files |->
              IF \E i \in DOMAIN r.files : r.files[i].path = path
              THEN [i \in DOMAIN r.files |->
                       IF r.files[i].path = path THEN ProcessFile(path)
                       ELSE r.files[i]]
              ELSE Append(r.files, ProcessFile(path))]
    ELSE IF \E i \in DOMAIN r.files : r.files[i].path = path
    THEN [updated |-> TRUE,
          files |-> SelectSeq(r.files, LAMBDA f : f.path # path)]
    ELSE r

RECURSIVE HandlePaths(_, _, _)
HandlePaths(r, paths, files) ==
    IF paths = <<>> THEN r
    ELSE HandlePaths(HandlePath(r, Head(paths), files), Tail(paths), files)

\* Mutant: the files are sorted by path again after a batch.
HandleChanges_Sorted(current, paths, files) ==
    LET r == HandlePaths([updated |-> FALSE, files |-> current.files],
                         paths, files)
    IN  IF r.updated
        THEN [files |-> StableSort(r.files, "path"),
              summary |-> CalculateSummary(StableSort(r.files, "path"))]
        ELSE current

\* handle_changes: the paths of the batch in the order the HashSet yields
\* them, then the summary again if anything changed.
HandleChanges(current, paths, files) ==
    LET r == HandlePaths([updated |-> FALSE, files |-> current.files],
                         paths, files)
    IN  IF r.updated
        THEN [files |-> r.files, summary |-> CalculateSummary(r.files)]
        ELSE current

\* The order a HashSet of paths is iterated in: ascending or descending.
PathsInOrder(S, rev) ==
    LET asc == SortedPaths(S)
    IN  IF rev THEN [i \in DOMAIN asc |-> asc[Len(asc) + 1 - i]] ELSE asc

WatchLive == watch.pc \notin {"off", "exited"}

\* run up to the loop: the first analysis, the channel, the watcher and
\* the Ctrl-C handler.
WatchRun ==
    /\ watch.pc = "off"
    /\ watch' = [pc |-> "check", running |-> TRUE, open |-> TRUE,
                 chan |-> <<>>, batch |-> {}, timer |-> 0,
                 result |-> CoreAnalyze(fs), late |-> 0, waited |-> 0]
    /\ UNCHANGED <<reachVars, pipeVars, orch, procs>>

\* run returns: the receiving end of the channel is dropped with whatever
\* it still holds.
Exited(w) == [w EXCEPT !.pc = "exited", !.chan = <<>>, !.timer = 0]

\* Mutant: the loop never reads the flag.
WatchCheck_FlagIgnored ==
    /\ watch.pc = "check"
    /\ watch' = [watch EXCEPT !.pc = "recv", !.timer = RecvTimeout]
    /\ UNCHANGED <<reachVars, pipeVars, orch, procs>>

\* watch.rs:81-87: the flag is read at the head of the loop.
WatchCheck ==
    /\ watch.pc = "check"
    /\ watch' = IF watch.running
                THEN [watch EXCEPT !.pc = "recv", !.timer = RecvTimeout]
                ELSE Exited(watch)
    /\ UNCHANGED <<reachVars, pipeVars, orch, procs>>

\* rx.recv_timeout(500 ms) returns: an event, Disconnected, or Timeout.
WatchRecv ==
    /\ watch.pc = "recv"
    /\ IF watch.chan # <<>>
       THEN watch' =
                IF Head(watch.chan).ok
                THEN [watch EXCEPT
                         !.chan = Tail(@),
                         !.batch = AddPathsFromEvent({}, Head(watch.chan)),
                         !.pc = "debounce", !.timer = DebounceWindow]
                ELSE [watch EXCEPT !.chan = Tail(@), !.pc = "check"]
       ELSE IF ~watch.open
       THEN watch' = Exited(watch)
       ELSE /\ watch.timer = 0
            /\ watch' = [watch EXCEPT !.pc = "check"]
    /\ UNCHANGED <<reachVars, pipeVars, orch, procs>>

\* watch.rs:103-112: one turn of the debounce loop that receives an event.
WatchCollect ==
    /\ watch.pc = "debounce"
    /\ watch.timer > 0
    /\ watch.chan # <<>>
    /\ watch' = [watch EXCEPT
                    !.chan = Tail(@),
                    !.batch = IF Head(watch.chan).ok
                              THEN AddPathsFromEvent(@, Head(watch.chan))
                              ELSE @]
    /\ UNCHANGED <<reachVars, pipeVars, orch, procs>>

\* The debounce loop ends: the window is over, or the channel is
\* disconnected and empty.
WatchCollected ==
    /\ watch.pc = "debounce"
    /\ watch.timer = 0 \/ (watch.chan = <<>> /\ ~watch.open)
    /\ watch' = [watch EXCEPT
                    !.pc = IF watch.batch # {} THEN "handle" ELSE "check"]
    /\ UNCHANGED <<reachVars, pipeVars, orch, procs>>

\* handle_changes(&mut current_result, changed_paths, &format)
WatchHandle(rev) ==
    /\ watch.pc = "handle"
    /\ watch' = [watch EXCEPT
                    !.result = HandleChanges(@, PathsInOrder(watch.batch, rev),
                                             fs),
                    !.batch = {},
                    !.late = IF watch.running THEN @ ELSE @ + 1,
                    !.pc = "check"]
    /\ UNCHANGED <<reachVars, pipeVars, orch, procs>>

\* 100 ms pass while the loop waits in recv_timeout.
WatchTick ==
    /\ watch.pc \in {"recv", "debounce"}
    /\ watch.timer > 0
    /\ watch' = [watch EXCEPT
                    !.timer = @ - 1,
                    !.waited = IF watch.running THEN @ ELSE @ + 1]
    /\ UNCHANGED <<reachVars, pipeVars, orch, procs>>

\* The Ctrl-C handler sets the flag.
CtrlC ==
    /\ WatchLive
    /\ watch.running
    /\ watch' = [watch EXCEPT !.running = FALSE]
    /\ UNCHANGED <<reachVars, pipeVars, orch, procs>>

\* The sending end of the channel goes away.
Disconnect ==
    /\ WatchLive
    /\ watch.open
    /\ watch' = [watch EXCEPT !.open = FALSE]
    /\ UNCHANGED <<reachVars, pipeVars, orch, procs>>

\* The watcher sends an event.
Sent(event) ==
    /\ WatchLive
    /\ watch.open
    /\ Len(watch.chan) < MaxQueue
    /\ watch' = [watch EXCEPT !.chan = Append(@, event)]

\* A file of the tree is created, written or removed, and the watcher
\* sends the event; or the watcher reports an error.
FileCreated(f) ==
    /\ f \notin DOMAIN fs
    /\ fs' = (f :> 0) @@ fs
    /\ Sent([ok |-> TRUE, paths |-> {f}])
    /\ UNCHANGED <<clock, db, lastRun, cli, savedFs, disturbed, runs, fsOps,
                   probe>>
    /\ UNCHANGED <<reachVars, orch, procs>>

FileWritten(f) ==
    /\ f \in DOMAIN fs
    /\ Sent([ok |-> TRUE, paths |-> {f}])
    /\ UNCHANGED <<reachVars, pipeVars, orch, procs>>

FileRemoved(f) ==
    /\ f \in DOMAIN fs
    /\ fs' = [x \in DOMAIN fs \ {f} |-> fs[x]]
    /\ Sent([ok |-> TRUE, paths |-> {f}])
    /\ UNCHANGED <<clock, db, lastRun, cli, savedFs, disturbed, runs, fsOps,
                   probe>>
    /\ UNCHANGED <<reachVars, orch, procs>>

WatcherError ==
    /\ Sent([ok |-> FALSE, paths |-> {}])
    /\ UNCHANGED <<reachVars, pipeVars, orch, procs>>

\* The steps of the loop itself.
WatchStep ==
    \/ WatchCheck
    \/ WatchRecv
    \/ WatchCollect
    \/ WatchCollected
    \/ \E rev \in BOOLEAN : WatchHandle(rev)

(***************************************************************************)
(* Two processes on one cache directory.  db is the store found under the  *)
(* path cache_dir/symbols.db.  sled::open takes an exclusive lock on the   *)
(* store and fails while another process holds it.  A process whose store  *)
(* was removed from under it keeps its open files: it goes on with a store *)
(* of its own that no path leads to.                                       *)
(***************************************************************************)
Procs == {1, 2}
MaxTicks == 1
NotOpen == [state |-> "none", attached |-> FALSE, own |-> NoEntry,
            found |-> FALSE]

\* The store process p reads and writes.
StoreOf(p) == IF procs[p].attached THEN db ELSE procs[p].own

HoldsLock(q) == procs[q].state = "open" /\ procs[q].attached

\* SymbolGraphCache::new in process p.  removable: fs::remove_dir_all
\* succeeds on a directory whose files another process has open.
ProcNew(p, removable) ==
    /\ procs[p].state \in {"none", "failed"}
    /\ IF ~\E q \in Procs \ {p} : HoldsLock(q)
       THEN /\ procs' = [procs EXCEPT ![p] = [NotOpen EXCEPT
                                                 !.state = "open",
                                                 !.attached = TRUE]]
            /\ db' = CacheNew(db, "none").db
       ELSE IF removable
       THEN /\ procs' = [q \in Procs |->
                            IF q = p
                            THEN [NotOpen EXCEPT !.state = "open",
                                                 !.attached = TRUE]
                            ELSE IF HoldsLock(q)
                            THEN [procs[q] EXCEPT !.attached = FALSE,
                                                  !.own = db]
                            ELSE procs[q]]
            /\ db' = CacheNew(db, "open_once").db
       ELSE /\ procs' = [procs EXCEPT ![p] = [NotOpen EXCEPT
                                                 !.state = "failed"]]
            /\ db' = db
    /\ UNCHANGED <<fs, clock, lastRun, cli, savedFs, disturbed, runs, fsOps,
                   probe>>
    /\ UNCHANGED <<reachVars, watch, orch>>

\* cache.save(&graph) in process p.
ProcSave(p) ==
    /\ procs[p].state = "open"
    /\ LET saved == Save(StoreOf(p), GraphOfFiles(DOMAIN fs), fs, clock,
                         "none").db
       IN  IF procs[p].attached
           THEN db' = saved /\ UNCHANGED procs
           ELSE procs' = [procs EXCEPT ![p].own = saved] /\ UNCHANGED db
    /\ UNCHANGED <<fs, clock, lastRun, cli, savedFs, disturbed, runs, fsOps,
                   probe>>
    /\ UNCHANGED <<reachVars, watch, orch>>

\* cache.load() in process p.
ProcLoad(p) ==
    /\ procs[p].state = "open"
    /\ LET loaded == Load(StoreOf(p), "none")
       IN  IF procs[p].attached
           THEN /\ db' = loaded.db
                /\ procs' = [procs EXCEPT ![p].found = loaded.found]
           ELSE /\ procs' = [procs EXCEPT ![p].found = loaded.found,
                                          ![p].own = loaded.db]
                /\ UNCHANGED db
    /\ UNCHANGED <<fs, clock, lastRun, cli, savedFs, disturbed, runs, fsOps,
                   probe>>
    /\ UNCHANGED <<reachVars, watch, orch>>

\* Process p ends: its handle is dropped, and with it a store no path
\* leads to.
ProcExit(p) ==
    /\ procs[p].state \in {"open", "failed"}
    /\ procs' = [procs EXCEPT ![p] = NotOpen]
    /\ UNCHANGED <<pipeVars, reachVars, watch, orch>>

\* The clock of the machine moves on by a second.
ProcTick ==
    /\ clock < RecentWindowSecs + MaxTicks
    /\ clock' = clock + 1
    /\ UNCHANGED <<fs, db, lastRun, cli, savedFs, disturbed, runs, fsOps,
                   probe>>
    /\ UNCHANGED <<reachVars, appVars>>

(***************************************************************************)
(* code-viz-commands/src/analyze.rs: analyze_repository, one step for each *)
(* await of the function.  A progress fraction is kept as num / den.  The  *)
(* context's report_progress and emit_event, and the file system's         *)
(* read_dir_recursive and read_to_string, may each return an error.        *)
(***************************************************************************)
PathReadme == << <<"repo">>, <<"README", "md">> >>
OrchPaths == {PathA, PathB, PathCli, PathReadme}
SupportedExtensions ==
    {"ts", "tsx", "js", "jsx", "rs", "py", "go", "cpp", "cc", "cxx", "hpp", "h"}

Fraction(n, d) == [num |-> n, den |-> d]
FractionLeq(a, b) == a.num * b.den <= b.num * a.den
FractionEq(a, b) == a.num * b.den = b.num * a.den

\* fs.read_dir_recursive(path): the paths of the tree in the order of the
\* FileSystem at hand.
ReadDirRecursive(files, rev) ==
    PathsInOrder(DOMAIN files \ {PathReadme}, rev)
        \o (IF PathReadme \in DOMAIN files THEN <<PathReadme>> ELSE <<>>)

\* analyze.rs:22-31
SupportedFiles(all_files) ==
    SelectSeq(all_files, LAMBDA f : Extension(f) \in SupportedExtensions)

\* analyze.rs:40: total_files > 0 && i % (total_files / 10).max(1) == 0
ReportsAt(i, total_files) ==
    LET step == IF total_files \div 10 > 1 THEN total_files \div 10 ELSE 1
    IN  total_files > 0 /\ i % step = 0

\* Mutant: the file at hand counts as done.
Percentage_FileDone(i, total_files) ==
    Fraction(2 * total_files + 7 * (i + 1), 10 * total_files)

\* analyze.rs:41: 0.2 + (i / total_files) * 0.7
Percentage(i, total_files) ==
    Fraction(2 * total_files + 7 * i, 10 * total_files)

\* The function returns the error of a failed call (the ? operator).
OrchFailed(o, what) ==
    [o EXCEPT !.pc = "done", !.ret = "err", !.err = what]

\* ctx.report_progress(percentage, ..).await?, then on to pc next.
Reported(o, percentage, ok, next) ==
    IF ok THEN [o EXCEPT !.progress = Append(@, percentage), !.pc = next]
    ELSE OrchFailed(o, "progress")

\* analyze.rs:15
OrchStart(ok) ==
    /\ orch.pc = "off"
    /\ orch' = Reported([pc |-> "off", ret |-> "none", err |-> "none",
                         progress |-> <<>>, supported_files |-> <<>>, i |-> 0,
                         results |-> <<>>, completed |-> 0,
                         value |-> [files |-> <<>>,
                                    summary |-> CalculateSummary(<<>>)]],
                        Fraction(1, 10), ok, "scan")
    /\ UNCHANGED <<reachVars, pipeVars, watch, procs>>

\* analyze.rs:18-34
OrchScan(rev, scanned, ok) ==
    /\ orch.pc = "scan"
    /\ orch' =
        IF ~scanned THEN OrchFailed(orch, "scan")
        ELSE Reported([orch EXCEPT !.supported_files =
                          SupportedFiles(ReadDirRecursive(fs, rev))],
                      Fraction(2, 10), ok, "files")
    /\ UNCHANGED <<reachVars, pipeVars, watch, procs>>

\* analyze.rs:38-53: one turn of the loop over supported_files.
OrchFile(ok, readable) ==
    /\ orch.pc = "files"
    /\ orch.i < Len(orch.supported_files)
    /\ LET total_files == Len(orch.supported_files)
           path == orch.supported_files[orch.i + 1]
           told == IF ReportsAt(orch.i, total_files)
                   THEN Reported(orch, Percentage(orch.i, total_files), ok,
                                 "files")
                   ELSE orch
       IN  orch' =
            IF told.pc = "done" THEN told
            ELSE [told EXCEPT
                     !.i = @ + 1,
                     !.results = IF readable THEN Append(@, ProcessFile(path))
                                 ELSE @]
    /\ UNCHANGED <<reachVars, pipeVars, watch, procs>>

\* analyze.rs:55-64
OrchSummary(ok) ==
    /\ orch.pc = "files"
    /\ orch.i = Len(orch.supported_files)
    /\ orch' = Reported([orch EXCEPT
                            !.value = [files |-> orch.results,
                                       summary |-> CalculateSummary(orch.results)]],
                        Fraction(9, 10), ok, "emit")
    /\ UNCHANGED <<reachVars, pipeVars, watch, procs>>

\* analyze.rs:67
OrchEmit(ok) ==
    /\ orch.pc = "emit"
    /\ orch' = IF ok THEN [orch EXCEPT !.completed = @ + 1, !.pc = "final"]
               ELSE OrchFailed(orch, "event")
    /\ UNCHANGED <<reachVars, pipeVars, watch, procs>>

\* analyze.rs:68-70
OrchFinal(ok) ==
    /\ orch.pc = "final"
    /\ orch' = LET told == Reported(orch, Fraction(10, 10), ok, "done")
               IN  IF ok THEN [told EXCEPT !.ret = "ok"] ELSE told
    /\ UNCHANGED <<reachVars, pipeVars, watch, procs>>

(***************************************************************************)
(* resolve_import_path called on its own, as tests.rs:305-320 does: the    *)
(* importer, the import source and the discovered files are given.         *)
(***************************************************************************)
ResolveImporters == {PathMain, PathLibWidget}

ResolveSources ==
    { <<CurDir, <<"utils">>>>,                      \* './utils'
      <<CurDir, <<"utils", "ts">>>>,                \* './utils.ts'
      <<CurDir, <<"utils", "helper">>>>,            \* './utils.helper'
      <<CurDir, <<"sub">>>>,                        \* './sub'
      <<ParentDir, <<"lib">>, <<"widget">>>>,       \* '../lib/widget'
      <<AliasAt, <<"repo">>, <<"src">>, <<"utils">>>>, \* '@/repo/src/utils'
      << <<"react">> >> }                           \* 'react'

ResolveFiles ==
    { PathUtils,
      << <<"repo">>, <<"src">>, <<"utils", "js">> >>,
      << <<"repo">>, <<"src">>, <<"utils", "helper", "ts">> >>,
      << <<"repo">>, <<"src">>, <<"sub", "ts">> >>,
      << <<"repo">>, <<"src">>, <<"sub">>, <<"index", "ts">> >>,
      PathLibWidget }

\* The arguments of a call that has not been made yet.
ResolveArgs(importer, src, files) ==
    [n |-> 0, op |-> "none", importer |-> importer, src |-> src,
     files |-> files]

\* The call: probe keeps the arguments and gets the file returned, as the
\* set {file}, or {} for None.
ResolveCall ==
    /\ probe.op = "none"
    /\ probe' = [n |-> 1, op |-> "resolve", importer |-> probe.importer,
                 src |-> probe.src, files |-> probe.files,
                 hit |-> ResolveImportPath(probe.importer, probe.src,
                                           probe.files)]
    /\ UNCHANGED <<fs, clock, db, lastRun, cli, savedFs, disturbed, runs,
                   fsOps>>
    /\ UNCHANGED <<reachVars, appVars>>

(***************************************************************************)
(* code-viz-core/src/metrics.rs.  A source line is the sequence of its     *)
(* pieces from left to right: "ws" one whitespace character, "code" one    *)
(* other character outside every comment, "block" a comment that begins    *)
(* and ends on the line, "line" a comment that runs to the end of the      *)
(* line, "open" a comment that begins on the line and ends on a later one, *)
(* "tail" the end of a comment begun on an earlier line, "mid" a whole     *)
(* line inside such a comment.                                             *)
(***************************************************************************)
Pieces == {"ws", "code", "block", "line", "open", "tail", "mid"}

\* line.trim().is_empty()
LineIsBlank(line) == \A i \in DOMAIN line : line[i] = "ws"

\* metrics.rs:57-65: the line from its first character that is no
\* whitespace.
SkipLeadingWs(line) ==
    IF LineIsBlank(line) THEN <<>>
    ELSE SubSeq(line, CHOOSE i \in DOMAIN line :
                          line[i] # "ws" /\ \A j \in 1..(i - 1) : line[j] = "ws",
                Len(line))

\* metrics.rs:68-105: the scan of the rest of the line.  A character inside
\* a comment that ends on the line is skipped with the comment; inside a
\* comment that ends later the answer is false; any other character, a
\* whitespace too, is taken for code.
RECURSIVE ScanForCode(_)
ScanForCode(rest) ==
    IF rest = <<>> THEN FALSE
    ELSE IF Head(rest) \in {"open", "mid"} THEN FALSE
    ELSE IF Head(rest) \in {"block", "line", "tail"}
    THEN ScanForCode(Tail(rest))
    ELSE TRUE

\* contains_code
ContainsCode(line) == ScanForCode(SkipLeadingWs(line))

\* calculate_loc
RECURSIVE CalculateLoc(_)
CalculateLoc(source) ==
    IF source = <<>> THEN 0
    ELSE (IF ~LineIsBlank(Head(source)) /\ ContainsCode(Head(source))
          THEN 1 ELSE 0) + CalculateLoc(Tail(source))

\* The lines a parser can return comment ranges for: "line", "open" and
\* "mid" end their line, "tail" and "mid" begin it.
IsLine(line) ==
    /\ \A i \in 1..(Len(line) - 1) : line[i] \notin {"line", "open", "mid"}
    /\ \A i \in 2..Len(line) : line[i] \notin {"tail", "mid"}

EndsOpen(line) == line # <<>> /\ line[Len(line)] \in {"open", "mid"}
BeginsInside(line) == line # <<>> /\ line[1] \in {"tail", "mid"}

\* The sources: every comment that is left open is closed on a later line.
IsSource(source) ==
    /\ \A i \in DOMAIN source : IsLine(source[i])
    /\ \A i \in DOMAIN source :
           BeginsInside(source[i]) <=> (i > 1 /\ EndsOpen(source[i - 1]))
    /\ source # <<>> => ~EndsOpen(source[Len(source)])

MaxPieces == 2
MaxLines == 2
MaxInserted == 3

Sources ==
    {src \in SeqsOf(SeqsOf(Pieces, 0, MaxPieces), 0, MaxLines) : IsSource(src)}

\* The lines of whitespace and comments only that stand on their own.
CommentLines ==
    {line \in SeqsOf({"ws", "block", "line"}, 0, MaxInserted) : IsLine(line)}

\* The source with the line put in after its first at lines.
InsertLine(source, at, line) ==
    SubSeq(source, 1, at) \o <<line>> \o SubSeq(source, at + 1, Len(source))

\* What a call of calculate_loc is about to be made on: a source, and the
\* same source with one more line.
LocArgs(source, at, line) ==
    [n |-> 0, op |-> "none", source |-> source, at |-> at, line |-> line]

\* calculate_loc on the source, on the source with the line put in, and on
\* the line alone.
LocCall ==
    /\ probe.op = "none"
    /\ probe' = [n |-> 1, op |-> "loc", source |-> probe.source,
                 at |-> probe.at, line |-> probe.line,
                 before |-> CalculateLoc(probe.source),
                 after |-> CalculateLoc(InsertLine(probe.source, probe.at,
                                                   probe.line)),
                 alone |-> CalculateLoc(<<probe.line>>)]
    /\ UNCHANGED <<fs, clock, db, lastRun, cli, savedFs, disturbed, runs,
                   fsOps>>
    /\ UNCHANGED <<reachVars, appVars>>

(***************************************************************************)
(* Claims about the reachability engine.                                   *)
(***************************************************************************)
\* The ids reachable from the set S over the edges of g.imports: the least
\* set that holds S and is closed under the edges.
RECURSIVE Closure(_, _)
Closure(g, S) ==
    LET step == S \cup UNION {Range(MapGet(g.imports, s, <<>>)) : s \in S}
    IN  IF step = S THEN S ELSE Closure(g, step)

\* The seeds that count: those that are keys of symbols.
LiveSeeds == Range(entry_points) \cap DOMAIN graph.symbols

\* C1: for a non-empty seed list analyze returns Ok(R), and a symbol of the
\* graph is in R exactly when it is a seed that is a key of symbols or a
\* path of imports edges leads to it from such a seed; seeds that are no
\* key of symbols raise no error and add nothing.
C1_ReachableIffPath ==
    (rpc = "done" /\ entry_points # <<>>) =>
        /\ result.ok
        /\ \A s \in DOMAIN graph.symbols :
              s \in result.set <=> s \in Closure(graph, LiveSeeds)

\* An absent seed was dropped, and a symbol that is no seed was reached.
C1_Witness ==
    /\ rpc = "done"
    /\ result.ok
    /\ 0 \in Range(entry_points)
    /\ \E s \in DOMAIN graph.symbols :
          s \in result.set /\ s \notin Range(entry_points)

\* C10: every analyze call that has started returns, whatever cycles or
\* self-loops the imports edges hold.
C10_AnalyzeTerminates == (rpc \in {"loop", "dfs"}) ~> (rpc = "done")

\* A call returned on a graph with a cycle (or a self-loop, a = b) among
\* the symbols it reached.
C10_Witness ==
    /\ rpc = "done"
    /\ result.ok
    /\ \E a \in result.set, b \in result.set :
          /\ b \in Range(MapGet(graph.imports, a, <<>>))
          /\ a \in Range(MapGet(graph.imports, b, <<>>))

\* C11: the result of every call on an analyzer, the first or a later one,
\* is a function of the graph and of that call's seeds: it is what a new
\* analyzer returns for them, and nothing the call before marked is in it
\* unless this call's seeds reach it.
C11_CallsAreIndependent ==
    (rpc = "done") =>
        /\ result = Analyze(graph, entry_points)
        /\ result.ok =>
              (result.set \cap carried) \subseteq Closure(graph, LiveSeeds)

\* A second call returned a set that lacks a symbol the first call marked.
C11_Witness ==
    /\ rpc = "done"
    /\ calls = 2
    /\ result.ok
    /\ result.set # {}
    /\ carried \ result.set # {}

\* The number of pushes of the current call, over all ids.
TotalPushes ==
    LET RECURSIVE Sum(_)
        Sum(S) == IF S = {} THEN 0
                  ELSE LET k == CHOOSE x \in S : TRUE
                       IN  work.pushes[k] + Sum(S \ {k})
    IN  Sum(Ids)

\* C28 as stated: during one analyze call, over all its seeds, every id is
\* pushed onto the stack of dfs at most once.
C28_PushedAtMostOnce ==
    \A id \in Ids : work.pushes[id] <= 1

\* C28, amended: during one analyze call every id is marked visited, and
\* its dependencies pushed, at most once; an id can be pushed several
\* times (as a seed, or as a dependency of several ids before it is
\* popped), the pushes of a call being at most one per seed and one per
\* entry of the imports lists.
C28_MarkedAtMostOnce ==
    /\ \A id \in Ids : work.marks[id] <= 1
    /\ \A id \in Ids : work.marks[id] <= work.pushes[id]
    /\ TotalPushes <= Len(entry_points) + EdgeCount(graph)

\* A call has returned in which an id was pushed twice and marked once.
C28_Witness ==
    /\ rpc = "done"
    /\ result.ok
    /\ \E id \in SymbolKeys : work.pushes[id] >= 2 /\ work.marks[id] = 1
    /\ \E from \in DOMAIN graph.imports :
           \E id \in Range(graph.imports[from]) :
               id # from /\ work.pushes[id] >= 2

(***************************************************************************)
(* Claims about the cache and the pipeline.                                *)
(***************************************************************************)
\* A step that is a run of the analyze command with --dead-code.
DeadCodeRun == runs' = runs + 1 /\ cli'.dead_code

\* The same, with no failure injected.
CleanDeadCodeRun == DeadCodeRun /\ lastRun'.fault = "none"

\* C2: after a run with caching that built and saved the graph, a second
\* run over the same files with nothing touched in between finds the cache
\* not stale, loads the graph instead of building and saving it, and gets
\* the graph of the first run.
C2_SecondRunLoadsFromCache ==
    [][(/\ lastRun.ran
        /\ lastRun.route = "rebuilt"
        /\ lastRun.wrote
        /\ ~disturbed
        /\ CleanDeadCodeRun)
       => (/\ ~lastRun'.stale
           /\ lastRun'.route = "loaded"
           /\ ~lastRun'.wrote
           /\ lastRun'.graph = lastRun.graph)]_vars

\* The tree differs from the one the entry in the store was saved for: the
\* hash of a file has changed, a file was added, or a file was removed.
TreeChanged ==
    \/ DOMAIN fs # DOMAIN savedFs.files
    \/ \E f \in DOMAIN fs \cap DOMAIN savedFs.files :
          HashOf(f, fs) # HashOf(f, savedFs.files)

\* C3: if since the entry was saved the hash of an analysed file changed,
\* or a file was added to or removed from the analysis set, the next run
\* treats the cache as stale: it rebuilds the graph and saves the new one,
\* and never returns the cached graph.
C3_ChangedTreeIsRebuilt ==
    [][(/\ savedFs.taken
        /\ TreeChanged
        /\ fs # <<>>
        /\ CleanDeadCodeRun)
       => (/\ lastRun'.stale
           /\ lastRun'.route = "rebuilt"
           /\ lastRun'.wrote
           /\ lastRun'.graph = GraphOfFiles(DOMAIN fs))]_vars

\* What analyze_dead_code returns when it builds the graph with no cache.
FreshOutcomes ==
    {AnalyzeDeadCode(fs, clock, db, FALSE, "none", rev).outcome :
        rev \in BOOLEAN}

\* C4: no failure of the cache (opening the store, reading or decoding the
\* entry, encoding or saving the graph) is fatal: the run still returns the
\* result it returns for a graph built fresh.
C4_CacheFailureNotFatal ==
    [][(DeadCodeRun /\ lastRun'.fault = "cache")
       => lastRun'.outcome \in FreshOutcomes]_vars

\* C6: when the graph of a run has a symbol and entry-point detection
\* returns nothing, analyze_dead_code fails with NoEntryPoints and gives no
\* report.
C6_NoEntryPointsError ==
    (/\ lastRun.ran
     /\ lastRun.has_graph
     /\ DOMAIN lastRun.graph.symbols # {}
     /\ \A rev \in BOOLEAN : DetectEntryPoints(lastRun.graph, rev) = <<>>)
    => (/\ ~lastRun.outcome.ok
        /\ lastRun.outcome.err = "NoEntryPoints"
        /\ lastRun.outcome.report = EmptyReport)

C6_Witness ==
    /\ lastRun.ran
    /\ lastRun.has_graph
    /\ Cardinality(DOMAIN lastRun.graph.symbols) = 2
    /\ DetectEntryPoints(lastRun.graph, FALSE) = <<>>
    /\ lastRun.outcome.err = "NoEntryPoints"

\* C7: a NoEntryPoints failure of the dead-code step is not fatal to the
\* run: the analyze command still outputs the metrics report.
C7_MetricsStillPrinted ==
    (/\ cli.ran
     /\ cli.dead_code
     /\ lastRun.outcome.err = "NoEntryPoints")
    => (cli.printed /\ Len(cli.output) = Len(lastRun.files))

\* The report lists the symbol of that name in that file with that confidence.
Listed(report, path, name, confidence) ==
    \E i \in DOMAIN report.files :
        /\ report.files[i].path = path
        /\ \E k \in DOMAIN report.files[i].dead_code :
              /\ report.files[i].dead_code[k].symbol = name
              /\ report.files[i].dead_code[k].confidence = confidence

\* The last run met no failure and analysed exactly the files of S.
RanOn(S) ==
    /\ lastRun.ran
    /\ lastRun.fault = "none"
    /\ Range(lastRun.files) = S

\* C8 as stated: the analysis of a.ts and b.ts, which import each other and
\* hold no entry point, reports funcA and funcB, each with confidence 70.
C8_CircularPairReported ==
    RanOn({PathA, PathB})
    => (/\ lastRun.outcome.ok
        /\ Listed(lastRun.outcome.report, PathA, <<"funcA">>, 70)
        /\ Listed(lastRun.outcome.report, PathB, <<"funcB">>, 70))

\* The confidence of an exported symbol with no other penalty.
ExportedOnly(path) ==
    IF RecentlyModified(path, fs, clock) THEN 50 ELSE 70

\* C8, amended: with the graph built from the files, the analysis of a.ts
\* and b.ts alone fails with NoEntryPoints; next to a file that holds an
\* entry point and imports neither (cli.ts with a function main) funcA and
\* funcB are both reported, with confidence 70 when their file was last
\* modified 30 days ago or more and 50 when it was modified since.
C8_CircularPairAmended ==
    [][(CleanDeadCodeRun /\ lastRun'.route = "rebuilt")
       => (/\ DOMAIN fs = {PathA, PathB}
              => (/\ ~lastRun'.outcome.ok
                  /\ lastRun'.outcome.err = "NoEntryPoints")
           /\ DOMAIN fs = {PathA, PathB, PathCli}
              => (/\ lastRun'.outcome.ok
                  /\ Listed(lastRun'.outcome.report, PathA, <<"funcA">>,
                            ExportedOnly(PathA))
                  /\ Listed(lastRun'.outcome.report, PathB, <<"funcB">>,
                            ExportedOnly(PathB))
                  /\ Len(lastRun'.outcome.report.files) = 2))]_vars

C8_Witness ==
    /\ RanOn({PathA, PathB, PathCli})
    /\ lastRun.route = "rebuilt"
    /\ Listed(lastRun.outcome.report, PathA, <<"funcA">>, 70)
    /\ Listed(lastRun.outcome.report, PathB, <<"funcB">>, 70)

\* C9 as stated: for src/main.ts with an exported run that imports helper
\* from ./utils, and utils.ts exporting helper and leftover, the analysis
\* reports leftover as dead with confidence 70 and reports neither run nor
\* helper.
C9_LeftoverReported ==
    RanOn({PathMain, PathUtils})
    => (/\ lastRun.outcome.ok
        /\ Listed(lastRun.outcome.report, PathUtils, <<"leftover">>, 70)
        /\ \A c \in 0..100 :
              /\ ~Listed(lastRun.outcome.report, PathMain, <<"run">>, c)
              /\ ~Listed(lastRun.outcome.report, PathUtils, <<"helper">>, c))

\* C9, amended: with the graph built from the two files, the import of
\* ./utils makes every export of utils.ts a dependency of run, so that run,
\* helper and leftover are all reachable and the report lists no symbol.
C9_NothingReported ==
    (RanOn({PathMain, PathUtils}) /\ lastRun.route = "rebuilt")
    => (/\ lastRun.outcome.ok
        /\ lastRun.outcome.report.files = <<>>
        /\ lastRun.outcome.report.summary.total_dead_loc = 0
        /\ \A rev \in BOOLEAN :
              Analyze(lastRun.graph, DetectEntryPoints(lastRun.graph, rev)).set
                  = DOMAIN lastRun.graph.symbols)

C9_Witness ==
    /\ RanOn({PathMain, PathUtils})
    /\ lastRun.route = "rebuilt"
    /\ lastRun.outcome.ok
    /\ Cardinality(DOMAIN lastRun.graph.symbols) = 3
    /\ lastRun.outcome.report.files = <<>>

(***************************************************************************)
(* Claims about entry points, confidence and the builder, on the trees of  *)
(* lib/.                                                                   *)
(***************************************************************************)
\* The dead symbols a report lists, each with the path of its file.
ListedDead(report) ==
    UNION {{[path |-> report.files[i].path, dead |-> report.files[i].dead_code[k]] :
               k \in DOMAIN report.files[i].dead_code} :
           i \in DOMAIN report.files}

\* The symbol of the graph an entry of the report was made from.
SymbolOf(g, e) == g.symbols[SymbolIdOf(e.path, e.dead.line_start, e.dead.symbol)]

\* C12: entry-point detection uses the test-file predicate of the builder:
\* every symbol with is_test = true is returned as an entry point.
C12_TestSymbolsAreEntryPoints ==
    (lastRun.ran /\ lastRun.has_graph) =>
        \A id \in DOMAIN lastRun.graph.symbols :
            lastRun.graph.symbols[id].is_test =>
                \A rev \in BOOLEAN :
                    id \in Range(DetectEntryPoints(lastRun.graph, rev))

\* The sum of the penalties that apply to a symbol, tested being given.
PenaltySum(symbol, files, now, tested) ==
    (IF symbol.is_exported THEN 30 ELSE 0)
    + (IF RecentlyModified(symbol.path, files, now) THEN 20 ELSE 0)
    + (IF CouldBeDynamicImport(symbol.name) THEN 25 ELSE 0)
    + (IF tested THEN 15 ELSE 0)

\* C13: the confidence of every reported symbol is 100 minus the sum of the
\* penalties that apply (30 exported, 20 recently modified, 25 dynamic
\* name, 15 plausibly tested), and lies in 0..100.
C13_ConfidenceIsPenaltySum ==
    [][(DeadCodeRun /\ lastRun'.outcome.ok)
       => \A e \in ListedDead(lastRun'.outcome.report) :
             /\ e.dead.confidence =
                    100 - PenaltySum(SymbolOf(lastRun'.graph, e), fs, clock,
                              HasTestCoverage(SymbolOf(lastRun'.graph, e),
                                              lastRun'.graph))
             /\ e.dead.confidence \in 0..100]_vars

\* All four penalties on one symbol, and none on another, in one report.
C13_Witness ==
    /\ lastRun.outcome.ok
    /\ Listed(lastRun.outcome.report, PathLibWidget, <<"mock", "loader">>, 10)
    /\ Listed(lastRun.outcome.report, PathLibTypes, <<"Foo">>, 80)

\* The rule of the claim: the name of a test-file symbol contains the name
\* of the symbol, or a symbol of a test file, exported or not, has the id
\* of the symbol in its imports list.
ClaimedTestCoverage(symbol, g) ==
    \E t \in {id \in DOMAIN g.symbols : g.symbols[id].is_test} :
        \/ NameContains(g.symbols[t].name, symbol.name)
        \/ symbol.id \in Range(MapGet(g.imports, t, <<>>))

\* C14: the plausibly-tested penalty of 15 applies to a symbol exactly when
\* a test-file symbol's name contains its name or a symbol of a test file,
\* exported or not, imports it.
C14_TestedPenaltyRule ==
    [][(CleanDeadCodeRun /\ lastRun'.outcome.ok)
       => \A e \in ListedDead(lastRun'.outcome.report) :
             e.dead.confidence =
                 100 - PenaltySum(SymbolOf(lastRun'.graph, e), fs, clock,
                           ClaimedTestCoverage(SymbolOf(lastRun'.graph, e),
                                               lastRun'.graph))]_vars

\* A run over a tree that holds lib/widget.ts, last modified 30 days ago or
\* more, that returned a report.
OldWidgetRun ==
    /\ CleanDeadCodeRun
    /\ PathLibWidget \in DOMAIN fs
    /\ ~RecentlyModified(PathLibWidget, fs, clock)
    /\ lastRun'.outcome.ok

\* C15 as stated: the unreached, unexported function registerPlugin_foo,
\* not recently modified and not tested, gets confidence 75.
C15_RegisterPluginFoo75 ==
    [][OldWidgetRun
       => Listed(lastRun'.outcome.report, PathLibWidget,
                 <<"registerPlugin", "foo">>, 75)]_vars

\* C15, amended: registerPlugin_foo matches no pattern (the lowered name
\* neither ends with "_plugin" nor starts with "plugin_") and gets
\* confidence 100; the exported session_handler, which ends with
\* "_handler", gets 100 - 30 - 25 = 45.
C15_RegisterPluginFoo100 ==
    [][OldWidgetRun
       => (/\ Listed(lastRun'.outcome.report, PathLibWidget,
                     <<"registerPlugin", "foo">>, 100)
           /\ Listed(lastRun'.outcome.report, PathLibWidget,
                     <<"session", "handler">>, 45))]_vars

C15_Witness ==
    /\ lastRun.ran
    /\ lastRun.outcome.ok
    /\ Listed(lastRun.outcome.report, PathLibWidget,
              <<"registerPlugin", "foo">>, 100)
    /\ Listed(lastRun.outcome.report, PathLibWidget,
              <<"session", "handler">>, 45)

\* The stored entry does not decode, or carries another schema version.
BadEntry(store) ==
    \/ store.kind = "garbage"
    \/ store.kind = "entry" /\ store.version # CACHE_VERSION

\* C16: when the stored entry cannot be decoded or carries a different
\* version, load returns no graph and no error and the entry is deleted,
\* and a run of the analysis builds a fresh graph and stores it.
C16_BadEntryIsDropped ==
    [][BadEntry(db)
       => /\ (probe'.n = probe.n + 1 /\ probe'.fault = "none")
                 => (probe'.ok /\ ~probe'.found /\ db' = NoEntry)
          /\ CleanDeadCodeRun
                 => (/\ lastRun'.route = "rebuilt"
                     /\ lastRun'.has_graph
                     /\ lastRun'.graph = GraphOfFiles(DOMAIN fs)
                     /\ db'.kind = "entry"
                     /\ db'.version = CACHE_VERSION
                     /\ db'.graph = lastRun'.graph)]_vars

C16_Witness ==
    /\ probe.op = "load"
    /\ probe.fault = "none"
    /\ BadEntry(probe.before)
    /\ ~probe.found
    /\ db = NoEntry
    /\ lastRun.ran

\* C17: in a graph the builder made, every id in an imports list is a key
\* of symbols.
C17_ImportsAreSymbols ==
    (lastRun.ran /\ lastRun.has_graph) =>
        \A id \in DOMAIN lastRun.graph.imports :
            Range(lastRun.graph.imports[id]) \subseteq DOMAIN lastRun.graph.symbols

C17_Witness ==
    /\ lastRun.ran
    /\ lastRun.has_graph
    /\ lastRun.route = "rebuilt"
    /\ \E id \in DOMAIN lastRun.graph.imports :
           Cardinality(Range(lastRun.graph.imports[id])) >= 3

\* C18: only TypeScript, TSX, JavaScript and JSX files contribute symbols,
\* exports and imports to the graph.
C18_OnlyScriptFilesContribute ==
    (lastRun.ran /\ lastRun.has_graph) =>
        /\ \A id \in DOMAIN lastRun.graph.symbols :
               Extension(lastRun.graph.symbols[id].path)
                   \in {"ts", "tsx", "js", "jsx"}
        /\ \A f \in DOMAIN lastRun.graph.exports :
               Extension(f) \in {"ts", "tsx", "js", "jsx"}
        /\ \A id \in DOMAIN lastRun.graph.imports :
               Extension(id[1]) \in {"ts", "tsx", "js", "jsx"}

\* C19: a file that cannot be read while the graph is built is skipped, and
\* the analysis does not fail because of it.
C19_UnreadableFileIsSkipped ==
    [][(DeadCodeRun /\ lastRun'.fault = "read" /\ DOMAIN fs # {})
       => (lastRun'.has_graph /\ lastRun'.outcome.err # "Io")]_vars

\* The path with ext appended to its file name as a further extension.
AppendExtension(p, ext) ==
    IF ~HasFileName(p) THEN p
    ELSE LET c == Components(p)
         IN  SubSeq(c, 1, Len(c) - 1) \o <<c[Len(c)] \o <<ext>>>>

\* The file a path denotes: "." dropped, ".." taking the directory before
\* it away.
RECURSIVE Denoted(_)
Denoted(p) ==
    IF p = <<>> THEN <<>>
    ELSE LET before == Denoted(SubSeq(p, 1, Len(p) - 1))
             last == p[Len(p)]
         IN  IF last = CurDir THEN before
             ELSE IF last = ParentDir /\ before # <<>>
                     /\ IsNormal(before[Len(before)])
             THEN SubSeq(before, 1, Len(before) - 1)
             ELSE Append(before, last)

\* The candidates of the claim, in the order of the claim.
ClaimedCandidates(importer_path, src) ==
    LET base == IF src[1] \in {CurDir, ParentDir}
                THEN Denoted(Join(Parent(importer_path), src))
                ELSE BasePath(importer_path, src)
    IN  <<base>>
        \o [i \in 1..Len(ResolveExtensions) |->
                AppendExtension(base, ResolveExtensions[i])]
        \o [i \in 1..Len(ResolveExtensions) |->
                Join(base, << <<"index", ResolveExtensions[i]>> >>)]

ClaimedResolve(importer_path, src, available_files) ==
    IF ~IsLocalImport(src) THEN {}
    ELSE LET cands == ClaimedCandidates(importer_path, src)
             hits == {i \in DOMAIN cands : cands[i] \in available_files}
         IN  IF hits = {} THEN {}
             ELSE {cands[CHOOSE i \in hits : \A j \in hits : i <= j]}

\* C20: resolve_import_path returns the first candidate that is a
\* discovered file, trying the literal path, then the path with .ts, .tsx,
\* .js, .jsx appended, then index.ts, index.tsx, index.js, index.jsx inside
\* it, a dot-prefixed import being resolved from the importer's directory
\* to the file it denotes; it returns no file when no candidate is one.
C20_FirstCandidateWins ==
    (probe.op = "resolve") =>
        probe.hit = ClaimedResolve(probe.importer, probe.src, probe.files)

\* C26: in every result of analyze_dead_code the dead_code list of each
\* file is sorted in ascending order of line_start.
C26_DeadCodeSortedByLine ==
    (lastRun.ran /\ lastRun.outcome.ok) =>
        \A i \in DOMAIN lastRun.outcome.report.files :
            LET dc == lastRun.outcome.report.files[i].dead_code
            IN  \A j, k \in DOMAIN dc :
                    j < k => dc[j].line_start <= dc[k].line_start

\* A ratio kept as a fraction is a number between 0 and 1.
IsUnitRatio(r) == r.den > 0 /\ 0 <= r.num /\ r.num <= r.den

\* C27: every dead-code ratio is a finite number in [0,1]: that of the
\* summary of a result, and that of each file's metrics, which is
\* dead_code_loc / loc when loc > 0 and 0 otherwise.
C27_RatiosInUnitInterval ==
    /\ (lastRun.ran /\ lastRun.outcome.ok) =>
           IsUnitRatio(lastRun.outcome.report.summary.dead_code_ratio)
    /\ (cli.ran /\ cli.dead_code /\ cli.ok) =>
           \A i \in DOMAIN cli.output :
               (\E e \in Range(lastRun.outcome.report.files) :
                    e.path = cli.output[i].path) =>
                   /\ IsUnitRatio(cli.output[i].dead_code_ratio)
                   /\ cli.output[i].dead_code_ratio =
                          IF cli.output[i].loc > 0
                          THEN [num |-> cli.output[i].dead_code_loc,
                                den |-> cli.output[i].loc]
                          ELSE [num |-> 0, den |-> 1]

\* C21: a line of whitespace and comments only adds 0 to the LOC of a file,
\* so putting such a line into a file never changes its LOC.
C21_CommentLinesAddNothing ==
    (probe.op = "loc") =>
        /\ probe.alone = 0
        /\ probe.after = probe.before

(***************************************************************************)
(* Specifications                                                          *)
(***************************************************************************)
\* The analyzer alone: the pipeline stays as it starts.
InitReach == InitAnalyzer /\ PipeStart(<<>>, RecentWindowSecs)

NextReach ==
    \/ \E from \in Ids, to \in Ids : AddImport(from, to)
    \/ \E eps \in SeqsOf(Ids, 0, MaxSeeds) : AnalyzeEnter(eps)
    \/ DfsEnter
    \/ DfsPop
    \/ DfsReturn
    \/ AnalyzeReturn

\* analyze is straight-line sequential code: a call that has started keeps
\* running until it returns.
SpecReach == InitReach /\ [][NextReach]_vars /\ WF_vars(AnalyzeStep)

\* The graphs of the tests of reachability.rs over the symbols at hand: the
\* chain 1 -> 2 -> ... (create_test_graph) and the cycle that closes it
\* (test_circular_dependency_handling).
ChainImports == [i \in 1..(NumSyms - 1) |-> <<i + 1>>]
CycleImports == [i \in SymbolKeys |-> <<(i % NumSyms) + 1>>]
CallGraphs ==
    {[symbols |-> [i \in SymbolKeys |-> i], imports |-> im] :
        im \in {<<>>, ChainImports, CycleImports}}

\* One analyzer, called several times.
InitCalls ==
    /\ \E g \in CallGraphs : AnalyzerNew(g)
    /\ PipeStart(<<>>, RecentWindowSecs)

NextCalls ==
    \/ \E eps \in SeqsOf(Ids, 0, MaxSeeds) : AnalyzeEnter(eps)
    \/ \E eps \in SeqsOf(Ids, 0, MaxSeeds) : AnalyzeAgain(eps)
    \/ DfsEnter
    \/ DfsPop
    \/ DfsReturn
    \/ AnalyzeReturn

SpecCalls == InitCalls /\ [][NextCalls]_vars

\* The trees a behaviour of the pipeline starts on, each last modified at time 0, seen just before or just after the 30 days of
\* recently_modified have passed.
ScenarioTrees ==
    {{}, {PathCli}, {PathA, PathB}, {PathA, PathB, PathCli},
     {PathMain, PathUtils}, TreePaths}
InitialTrees == {[f \in S |-> 0] : S \in ScenarioTrees}
InitialClocks == {RecentWindowSecs - 1, RecentWindowSecs}

InitPipe ==
    /\ InitAnalyzer
    /\ \E tree \in InitialTrees, t0 \in InitialClocks :
          PipeStart(tree, t0)

NextPipe ==
    \/ \E dead_code \in BOOLEAN, fault \in Faults, rev \in BOOLEAN :
          AnalyzeCommand(dead_code, fault, rev)
    \/ \E f \in TreePaths : Touch(f)
    \/ \E f \in TreePaths : AddFile(f)
    \/ \E f \in TreePaths : RemoveFile(f)
    \/ \E entry \in ForeignEntries : ForeignEntry(entry)

SpecPipe == InitPipe /\ [][NextPipe]_vars

\* The pipeline and the cache on the trees of lib/, which hold a test file,
\* a header and names of every kind; the set of files stays as it starts.
InitLab ==
    /\ InitAnalyzer
    /\ \E S \in LabTrees, t0 \in InitialClocks :
          PipeStart([f \in S |-> 0], t0)

NextLab ==
    \/ \E dead_code \in BOOLEAN, fault \in {"none", "read"}, rev \in BOOLEAN :
          AnalyzeCommand(dead_code, fault, rev)
    \/ \E f \in AllPaths : Touch(f)
    \/ \E entry \in ForeignEntries : ForeignEntry(entry)
    \/ \E fault \in {"none", "get_load"} : LoadCall(fault)

SpecLab == InitLab /\ [][NextLab]_vars

\* The pipeline and the analyzer at rest, a direct call about to be made.
InitProbe(args) ==
    /\ InitAnalyzer
    /\ fs = <<>>
    /\ clock = RecentWindowSecs
    /\ db = NoEntry
    /\ lastRun = NoRun
    /\ cli = NoCommand
    /\ savedFs = NoSnapshot
    /\ disturbed = FALSE
    /\ runs = 0
    /\ fsOps = 0
    /\ probe = args
    /\ AppIdle

\* resolve_import_path on every importer, source and set of files.
InitResolve ==
    \E importer \in ResolveImporters, src \in ResolveSources,
       files \in SUBSET ResolveFiles :
        InitProbe(ResolveArgs(importer, src, files))

NextResolve == ResolveCall

\* Two processes that open, use and leave the cache of one tree.
InitProcs ==
    /\ InitAnalyzer
    /\ \E S \in SUBSET {PathA, PathB} :
           /\ fs = [f \in S |-> 0]
           /\ clock = RecentWindowSecs
           /\ db = NoEntry
           /\ lastRun = NoRun
           /\ cli = NoCommand
           /\ savedFs = NoSnapshot
           /\ disturbed = FALSE
           /\ runs = 0
           /\ fsOps = 0
           /\ probe = NoProbe
    /\ watch = NoWatch
    /\ orch = NoOrch
    /\ procs = [p \in Procs |-> NotOpen]

NextProcs ==
    \/ \E p \in Procs, removable \in BOOLEAN : ProcNew(p, removable)
    \/ \E p \in Procs : ProcSave(p)
    \/ \E p \in Procs : ProcLoad(p)
    \/ \E p \in Procs : ProcExit(p)
    \/ ProcTick

SpecProcs == InitProcs /\ [][NextProcs]_vars

\* analyze_repository on a tree of up to four files.
InitOrch ==
    /\ InitAnalyzer
    /\ \E S \in SUBSET OrchPaths : PipeStart([f \in S |-> 0], RecentWindowSecs)

NextOrch ==
    \/ \E ok \in BOOLEAN : OrchStart(ok)
    \/ \E rev, scanned, ok \in BOOLEAN : OrchScan(rev, scanned, ok)
    \/ \E ok, readable \in BOOLEAN : OrchFile(ok, readable)
    \/ \E ok \in BOOLEAN : OrchSummary(ok)
    \/ \E ok \in BOOLEAN : OrchEmit(ok)
    \/ \E ok \in BOOLEAN : OrchFinal(ok)

SpecOrch == InitOrch /\ [][NextOrch]_vars

\* Watch mode on a tree of up to two files.  The loop is sequential code
\* and keeps running; time passes while it waits.
InitWatch ==
    /\ InitAnalyzer
    /\ \E S \in SUBSET WatchPaths : PipeStart([f \in S |-> 0], RecentWindowSecs)

NextWatch ==
    \/ WatchRun
    \/ WatchCheck
    \/ WatchRecv
    \/ WatchCollect
    \/ WatchCollected
    \/ \E rev \in BOOLEAN : WatchHandle(rev)
    \/ WatchTick
    \/ CtrlC
    \/ Disconnect
    \/ \E f \in WatchPaths : FileCreated(f)
    \/ \E f \in WatchPaths : FileWritten(f)
    \/ \E f \in WatchPaths : FileRemoved(f)
    \/ WatcherError

SpecWatch ==
    InitWatch /\ [][NextWatch]_vars /\ WF_vars(WatchStep) /\ WF_vars(WatchTick)

(***************************************************************************)
(* Claims about the analysis result and watch mode                         *)
(***************************************************************************)
FilesSortedByPath(files) ==
    \A i, j \in DOMAIN files :
        i < j => PathRank(files[i].path) < PathRank(files[j].path)

\* C22: the files of the result watch mode holds are in ascending order of
\* their paths, at the start and after every batch of changes.
C22_FilesSortedByPath ==
    watch.pc # "off" => FilesSortedByPath(watch.result.files)

\* The first ten files by loc descending, files of equal loc by path
\* ascending, whatever the order of the input.
ClaimedLargest(files) ==
    LET ranked == StableSort(StableSort(files, "path"), "loc")
        taken == SubSeq(ranked, 1, IF Len(ranked) < TopN THEN Len(ranked)
                                   ELSE TopN)
    IN  [i \in DOMAIN taken |-> taken[i].path]

\* C23: largest_files of the summary is the first ten files by loc
\* descending with ties by path ascending, in whatever order the files are.
C23_LargestFilesRanked ==
    watch.pc # "off" =>
        watch.result.summary.largest_files = ClaimedLargest(watch.result.files)

\* C29: when a process opens the cache while another process has it open,
\* the store under the cache path and the other process's state stay as
\* they are.
C29_OpenLeavesStoreAlone ==
    [][\A p \in Procs :
          (/\ procs[p].state # "open"
           /\ procs'[p].state # procs[p].state
           /\ \E q \in Procs \ {p} : procs[q].state = "open")
          => (db' = db /\ \A q \in Procs \ {p} : procs'[q] = procs[q])]_vars

\* The fractions the claim lists for a run over total files.
ClaimedProgress(total) ==
    <<Fraction(1, 10), Fraction(2, 10)>>
        \o [k \in 1..total |-> Fraction(2 * total + 7 * (k - 1), 10 * total)]
        \o <<Fraction(9, 10), Fraction(1, 1)>>

\* C24: the progress of a run that returned Ok is 0.1, 0.2, then
\* 0.2 + 0.7 * done / total for each file, then 0.9 and last 1.0; the
\* fractions never decrease and lie in [0, 1].
C24_ProgressMilestones ==
    (orch.pc = "done" /\ orch.ret = "ok") =>
        LET claimed == ClaimedProgress(Len(orch.supported_files))
        IN  /\ Len(orch.progress) = Len(claimed)
            /\ \A k \in DOMAIN claimed :
                   FractionEq(orch.progress[k], claimed[k])
            /\ \A k \in DOMAIN orch.progress :
                   /\ FractionLeq(Fraction(0, 1), orch.progress[k])
                   /\ FractionLeq(orch.progress[k], Fraction(1, 1))
                   /\ k > 1 => FractionLeq(orch.progress[k - 1], orch.progress[k])
            /\ orch.completed = 1

\* A run over three files, listed in descending order, returned Ok.
C24_Witness ==
    /\ orch.pc = "done"
    /\ orch.ret = "ok"
    /\ Len(orch.supported_files) = 3
    /\ Len(orch.results) = 3
    /\ Len(orch.progress) = 7
    /\ orch.supported_files[1] = PathCli

\* C25: a run in which a report_progress call failed still returns Ok with
\* the result of the analysis.
C25_FailedReportIsIgnored ==
    (orch.pc = "done" /\ orch.err = "progress") => orch.ret = "ok"

WatchStopped == WatchLive /\ (~watch.running \/ ~watch.open)

\* C30: once the flag is cleared or the channel is disconnected the loop
\* exits; after the flag is cleared it handles at most one batch and waits
\* no longer than one debounce window and one receive timeout.
C30_WatchTerminates ==
    /\ [](watch.pc # "off" =>
            /\ watch.late <= 1
            /\ watch.waited <= RecvTimeout + DebounceWindow)
    /\ WatchStopped ~> (watch.pc = "exited")

\* The flag was cleared while a batch was open; the batch was handled and
\* the loop is over.
C30_Witness ==
    /\ watch.pc = "exited"
    /\ ~watch.running
    /\ watch.late = 1
    /\ watch.waited > 0

\* calculate_loc on every source, with a comment line put in between two
\* of its lines where no comment is open.
InitLoc ==
    \E source \in Sources, line \in CommentLines :
        \E at \in 0..Len(source) :
            /\ at > 0 => ~EndsOpen(source[at])
            /\ InitProbe(LocArgs(source, at, line))

NextLoc == LocCall

SpecLoc == InitLoc /\ [][NextLoc]_vars

SpecResolve == InitResolve /\ [][NextResolve]_vars

====
